---- MODULE Spec2Model ----
(***************************************************************************)
(* Model of the Google Merchant Center product feed generation of         *)
(* src/src/lib/google-feed.ts: buildLookups, aggregateItems,               *)
(* toGoogleProduct, escapeTsvValue and generateTsvFeed.                    *)
(*                                                                         *)
(* Representation of JavaScript values:                                    *)
(*   - a string is a sequence of characters, each character a one-element  *)
(*     TLA+ string ("a", " ", "\t"); text that carries no white space,     *)
(*     letter case or separator of interest (an id, a URL, a column name)  *)
(*     is abbreviated to a one-token sequence such as <<"in_stock">>;      *)
(*   - an optional value (undefined / absent property) is a sequence of    *)
(*     length at most one: None is <<>>, Some(x) is <<x>>;                 *)
(*   - numbers are integers; Infinity is an integer above every amount     *)
(*     the inputs carry.                                                   *)
(***************************************************************************)
EXTENDS Integers, Sequences, FiniteSets, TLC

\* ------------------------------------------------------------------------
\* Bounds of the model
\* ------------------------------------------------------------------------
\* largest price amount (minor units) a variation carries
MaxPrice == 2
\* largest quantity of one inventory row
MaxQty == 1
\* most variations of one ITEM record
MaxVars == 2
\* most ITEM records of a snapshot with several items
MaxItems == 2
\* most categories one item refers to
MaxCategories == 2
\* most inventory rows of a snapshot of inventory rows
MaxRows == 2
\* most ids of a list whose inventory counts are fetched
MaxIds == 201
\* most pages the inventory service splits the counts of one batch into
MaxCountPages == 2
\* most deployments of the project the cleanup script lists
MaxDeployments == 2
\* most invocations of generateTsvFeed one after the other
MaxCalls == 2
\* most characters of a name extractBaseName is called with
MaxNameLen == 6

\* ------------------------------------------------------------------------
\* JavaScript values
\* ------------------------------------------------------------------------
None == <<>>

Some(x) == <<x>>

IsSome(o) == Len(o) > 0

\* o ?? d
OrElse(o, d) == IF IsSome(o) THEN o[1] ELSE d

\* truthiness of an optional string: present and not ""
TruthyStr(o) == IsSome(o) /\ Len(o[1]) > 0

\* Number.POSITIVE_INFINITY, above every amount of the model
Infinity == 2147483647

\* a one-token string
Tok(t) == <<t>>

RECURSIVE Concat(_)
\* the concatenation of a sequence of strings
Concat(ss) == IF Len(ss) = 0 THEN <<>> ELSE Head(ss) \o Concat(Tail(ss))

RECURSIVE Join(_, _)
\* Array.prototype.join: the strings of ss separated by sep
Join(ss, sep) ==
    IF Len(ss) = 0 THEN <<>>
    ELSE IF Len(ss) = 1 THEN ss[1]
    ELSE ss[1] \o sep \o Join(Tail(ss), sep)

LowerChars == <<"a","b","c","d","e","f","g","h","i","j","k","l","m",
                "n","o","p","q","r","s","t","u","v","w","x","y","z">>

UpperChars == <<"A","B","C","D","E","F","G","H","I","J","K","L","M",
                "N","O","P","Q","R","S","T","U","V","W","X","Y","Z">>

\* String.prototype.toUpperCase on one character
ToUpperChar(c) ==
    IF \E k \in 1..26 : LowerChars[k] = c
    THEN UpperChars[CHOOSE k \in 1..26 : LowerChars[k] = c]
    ELSE c

\* String.prototype.toLowerCase on one character
ToLowerChar(c) ==
    IF \E k \in 1..26 : UpperChars[k] = c
    THEN LowerChars[CHOOSE k \in 1..26 : UpperChars[k] = c]
    ELSE c

toUpperCase(s) == [k \in 1..Len(s) |-> ToUpperChar(s[k])]

toLowerCase(s) == [k \in 1..Len(s) |-> ToLowerChar(s[k])]

\* the white space String.prototype.trim removes
WhiteSpace == {" ", "\t", "\n", "\r"}

RECURSIVE TrimStart(_)
TrimStart(s) ==
    IF Len(s) > 0 /\ s[1] \in WhiteSpace THEN TrimStart(Tail(s)) ELSE s

RECURSIVE TrimEnd(_)
TrimEnd(s) ==
    IF Len(s) > 0 /\ s[Len(s)] \in WhiteSpace
    THEN TrimEnd(SubSeq(s, 1, Len(s) - 1))
    ELSE s

\* trim that leaves the white space at the end
trim_StartOnly(s) == TrimStart(s)

\* String.prototype.trim
trim(s) == TrimEnd(TrimStart(s))

\* the separator extractBaseName splits on
NameSeparator == <<" ", "-", " ">>

\* does sep occur in s at position k
OccursAt(s, sep, k) ==
    /\ k + Len(sep) - 1 <= Len(s)
    /\ \A d \in 1..Len(sep) : s[k + d - 1] = sep[d]

\* s.split(sep)[0]: the text before the first occurrence of sep
FirstSegment(s, sep) ==
    IF \E k \in 1..Len(s) : OccursAt(s, sep, k)
    THEN LET first == CHOOSE k \in 1..Len(s) :
                        /\ OccursAt(s, sep, k)
                        /\ \A m \in 1..(k - 1) : ~OccursAt(s, sep, m)
         IN SubSeq(s, 1, first - 1)
    ELSE s

\* extractBaseName with the name trimmed before the split instead of after
extractBaseName_TrimBeforeSplit(variantName) ==
    LET baseName == FirstSegment(trim(variantName), NameSeparator)
    IN IF baseName = toUpperCase(baseName) /\ Len(baseName) > 1
       THEN <<baseName[1]>> \o toLowerCase(Tail(baseName))
       ELSE baseName

\* extractBaseName (google-feed.ts 57-68)
extractBaseName(variantName) ==
    LET baseName == trim(FirstSegment(variantName, NameSeparator))
    IN IF baseName = toUpperCase(baseName) /\ Len(baseName) > 1
       THEN <<baseName[1]>> \o toLowerCase(Tail(baseName))
       ELSE baseName

\* the text `${x}` of an optional string: "undefined" when absent
TemplateStr(o) ==
    IF IsSome(o) THEN o[1] ELSE <<"u","n","d","e","f","i","n","e","d">>

DigitChars == <<"0","1","2","3","4","5","6","7","8","9">>

IsDigit(c) == \E k \in 1..10 : DigitChars[k] = c

DigitValue(c) == (CHOOSE k \in 1..10 : DigitChars[k] = c) - 1

RECURSIVE DigitsValue(_, _)
\* the value of the longest prefix of digits of s, after the value acc
DigitsValue(s, acc) ==
    IF Len(s) > 0 /\ IsDigit(s[1])
    THEN DigitsValue(Tail(s), 10 * acc + DigitValue(s[1]))
    ELSE acc

\* parseFloat on a string that carries no fraction or exponent: leading white
\* space is skipped, a sign is read, then the longest prefix of digits; None
\* is NaN (no digit where the number must start)
parseFloat(str) ==
    LET t == TrimStart(str)
        neg == Len(t) > 0 /\ t[1] = "-"
        u == IF Len(t) > 0 /\ t[1] \in {"-", "+"} THEN Tail(t) ELSE t
    IN IF Len(u) > 0 /\ IsDigit(u[1])
       THEN Some(IF neg THEN 0 - DigitsValue(u, 0) ELSE DigitsValue(u, 0))
       ELSE None

RECURSIVE NatStr(_)
\* the decimal digits of a natural number
NatStr(n) ==
    IF n < 10 THEN <<DigitChars[n + 1]>>
    ELSE NatStr(n \div 10) \o <<DigitChars[(n % 10) + 1]>>

\* Number.prototype.toString of an integer
IntStr(n) == IF n < 0 THEN <<"-">> \o NatStr(0 - n) ELSE NatStr(n)

\* ------------------------------------------------------------------------
\* Map<string, V> in insertion order: a sequence of [key, value] entries
\* ------------------------------------------------------------------------
MapHas(m, k) == \E e \in 1..Len(m) : m[e].key = k

\* Map.prototype.get: None is undefined
MapGet(m, k) ==
    IF MapHas(m, k)
    THEN Some(m[CHOOSE e \in 1..Len(m) : m[e].key = k].value)
    ELSE None

\* Map.prototype.set: an existing key keeps its place
MapSet(m, k, v) ==
    IF MapHas(m, k)
    THEN [e \in 1..Len(m) |-> IF m[e].key = k THEN [key |-> k, value |-> v] ELSE m[e]]
    ELSE Append(m, [key |-> k, value |-> v])

\* the map of the invocation before, used again
NewMap_Reused(previous) == previous

\* new Map(): an empty map, whatever the map of an invocation before holds
NewMap(previous) == <<>>

\* ------------------------------------------------------------------------
\* fetchInventoryCounts (scripts/fetch-square-inventory.ts 61-86) and
\* getInventoryCounts (scripts/square/api.ts 128-172)
\* ------------------------------------------------------------------------
\* const BATCH_SIZE = 100
BATCH_SIZE == 100

\* Array.prototype.slice(from, to) for 0 <= from <= to: the elements at the
\* 0-based positions from .. to - 1 that exist
slice(s, from, to) ==
    SubSeq(s, from + 1, IF to < Len(s) THEN to ELSE Len(s))

\* a batch that takes one id more than the step of the loop
BatchOf_OneMore(ids, at) == slice(ids, at, at + BATCH_SIZE + 1)

\* catalogObjectIds.slice(i, i + BATCH_SIZE)
BatchOf(ids, at) == slice(ids, at, at + BATCH_SIZE)

\* no call of either function
NoFetch ==
    [fn |-> "none", catalogObjectIds |-> <<>>, i |-> 0, batch |-> <<>>,
     cursor |-> <<>>, page |-> 1, requests |-> <<>>, allCounts |-> <<>>,
     result |-> <<>>]

\* ------------------------------------------------------------------------
\* The cleanup script of old deployments (unnamed/part_005)
\* ------------------------------------------------------------------------
\* no run of the cleanup script
NoCleanup == <<>>

\* : "${MAX_AGE_DAYS:=30}"
DefaultMaxAgeDays == 30

\* the day the script runs on, days counted from some day 0
Today == 40

\* a text variable of the environment after ": ${NAME:=default}": the
\* default when it is unset or empty
EnvOr(env, default) == IF env = None \/ env = Some(<<>>) THEN default ELSE env[1]

\* a day printed without padding to two digits
DateText_NoPad(day) ==
    IF day < 10 THEN <<DigitChars[day + 1]>>
    ELSE <<DigitChars[(day \div 10) + 1], DigitChars[(day % 10) + 1]>>

\* date +%Y-%m-%dT%H:%M:%SZ: the text of an instant, every field of fixed
\* width with leading zeros; here the text of a day in two digits
DateText(day) == <<DigitChars[(day \div 10) + 1], DigitChars[(day % 10) + 1]>>

\* [[ a < b ]]: a sorts before b, character by character
SortsBefore(a, b) ==
    \E p \in 1..(Len(a) + 1) :
        /\ p <= Len(b)
        /\ \A q \in 1..(p - 1) : a[q] = b[q]
        /\ p = Len(a) + 1 \/ DigitValue(a[p]) < DigitValue(b[p])

\* the count of aliases with every deployment taken to have none
AliasCount_Ignored(deployment) == 0

\* jq '.aliases // [] | length' (line 70)
AliasCount(deployment) == Len(OrElse(deployment.aliases, <<>>))

\* the page of the deployments the service answers a GET with (lines 45-48)
PageOf(deployments, perPage, page) ==
    slice(deployments, (page - 1) * perPage, page * perPage)

\* result_info.total_pages
TotalPages(deployments, perPage) == (Len(deployments) + perPage - 1) \div perPage

\* the deployments without the one of an id
WithoutDeployment(deployments, id) ==
    SelectSeq(deployments, LAMBDA d : d.id # id)

\* ------------------------------------------------------------------------
\* buildLookups (google-feed.ts 73-123)
\* ------------------------------------------------------------------------
RECURSIVE ImagesOf(_, _)
\* Image ID -> URL (74-80)
ImagesOf(objs, images) ==
    IF Len(objs) = 0 THEN images
    ELSE LET obj == Head(objs)
         IN IF /\ obj.type = "IMAGE"
               /\ TruthyStr(obj.id)
               /\ IsSome(obj.imageData)
               /\ TruthyStr(obj.imageData[1].url)
            THEN ImagesOf(Tail(objs), MapSet(images, obj.id[1], obj.imageData[1].url[1]))
            ELSE ImagesOf(Tail(objs), images)

\* the test of the category loop (87)
IsNamedCategory(obj) ==
    /\ obj.type = "CATEGORY"
    /\ TruthyStr(obj.id)
    /\ IsSome(obj.categoryData)
    /\ TruthyStr(obj.categoryData[1].name)

RECURSIVE CategoriesOf(_, _)
\* Category ID -> name (83-91)
CategoriesOf(objs, categories) ==
    IF Len(objs) = 0 THEN categories
    ELSE LET obj == Head(objs)
         IN IF IsNamedCategory(obj)
            THEN CategoriesOf(Tail(objs),
                     MapSet(categories, obj.id[1], obj.categoryData[1].name[1]))
            ELSE CategoriesOf(Tail(objs), categories)

\* obj.categoryData.parentCategory?.id
ParentIdOf(obj) ==
    IF IsSome(obj.categoryData[1].parentCategory)
    THEN obj.categoryData[1].parentCategory[1].id
    ELSE None

RECURSIVE CategoryParentsOf(_, _)
\* Category ID -> parent ID, possibly undefined (85-91)
CategoryParentsOf(objs, parents) ==
    IF Len(objs) = 0 THEN parents
    ELSE LET obj == Head(objs)
         IN IF IsNamedCategory(obj)
            THEN CategoryParentsOf(Tail(objs), MapSet(parents, obj.id[1], ParentIdOf(obj)))
            ELSE CategoryParentsOf(Tail(objs), parents)

\* the id of the first category named "BRANDS", None when there is none (94-100)
BrandsCategoryId(categories) ==
    IF \E e \in 1..Len(categories) : categories[e].value = Tok("BRANDS")
    THEN Some(categories[CHOOSE e \in 1..Len(categories) :
                  /\ categories[e].value = Tok("BRANDS")
                  /\ \A f \in 1..(e - 1) : categories[f].value # Tok("BRANDS")].key)
    ELSE None

\* the descendants of BRANDS down to its grandchildren
BrandCategoryIds_WithGrandchildren(categories, parents) ==
    LET brandsCategoryId == BrandsCategoryId(categories)
        children == {parents[e].key :
                        e \in {f \in 1..Len(parents) : parents[f].value = brandsCategoryId}}
    IN IF TruthyStr(brandsCategoryId)
       THEN children \cup {parents[e].key :
                e \in {f \in 1..Len(parents) :
                          \E c \in children : parents[f].value = Some(c)}}
       ELSE {}

\* the categories whose parent is BRANDS (103-110)
BrandCategoryIds(categories, parents) ==
    LET brandsCategoryId == BrandsCategoryId(categories)
    IN IF TruthyStr(brandsCategoryId)
       THEN {parents[e].key : e \in {f \in 1..Len(parents) : parents[f].value = brandsCategoryId}}
       ELSE {}

\* parseFloat(count.quantity ?? "0") || 0 (117)
RowQuantity(count) == OrElse(parseFloat(OrElse(count.quantity, Tok("0"))), 0)

RECURSIVE InventoryOf_Overwrite(_, _)
\* the inventory index with a later row replacing the quantity of its id
InventoryOf_Overwrite(counts, inventory) ==
    IF Len(counts) = 0 THEN inventory
    ELSE LET count == Head(counts)
         IN IF TruthyStr(count.catalogObjectId)
            THEN InventoryOf_Overwrite(Tail(counts),
                     MapSet(inventory, count.catalogObjectId[1], RowQuantity(count)))
            ELSE InventoryOf_Overwrite(Tail(counts), inventory)

RECURSIVE InventoryOf(_, _)
\* Variation ID -> total quantity, summed across locations (113-120)
InventoryOf(counts, inventory) ==
    IF Len(counts) = 0 THEN inventory
    ELSE LET count == Head(counts)
         IN IF TruthyStr(count.catalogObjectId)
            THEN LET existing == OrElse(MapGet(inventory, count.catalogObjectId[1]), 0)
                     qty == RowQuantity(count)
                 IN InventoryOf(Tail(counts),
                        MapSet(inventory, count.catalogObjectId[1], existing + qty))
            ELSE InventoryOf(Tail(counts), inventory)

buildLookups(d) ==
    LET categories == CategoriesOf(d.catalogObjects, <<>>)
        categoryParents == CategoryParentsOf(d.catalogObjects, <<>>)
    IN [images |-> ImagesOf(d.catalogObjects, <<>>),
        categories |-> categories,
        brandCategoryIds |-> BrandCategoryIds(categories, categoryParents),
        inventory |-> InventoryOf(d.inventoryCounts, <<>>)]

\* ------------------------------------------------------------------------
\* aggregateItems (google-feed.ts 128-213)
\* ------------------------------------------------------------------------
\* line 133: an ITEM record with an id and item data
IsItemRecord(obj) ==
    /\ obj.type = "ITEM"
    /\ TruthyStr(obj.id)
    /\ IsSome(obj.itemData)

\* line 134, negated: neither deleted nor archived
IsLiveItem_NoDeletedCheck(obj) == ~obj.itemData[1].isArchived

IsLiveItem(obj) == ~obj.isDeleted /\ ~obj.itemData[1].isArchived

\* line 136, negated: a regular product
IsRegularItem_NoCheck(obj) == TRUE

IsRegularItem(obj) == obj.itemData[1].productType = Some("REGULAR")

\* itemData.variations ?? [] (139)
VariationsOf(obj) == OrElse(obj.itemData[1].variations, <<>>)

\* lines 133-140: the record is not skipped
IsEligibleItem(obj) ==
    /\ IsItemRecord(obj)
    /\ IsLiveItem(obj)
    /\ IsRegularItem(obj)
    /\ Len(VariationsOf(obj)) # 0

\* the URL of the first image id (143-144)
ImageUrlOf(itemData, lk) ==
    LET imageIds == OrElse(itemData.imageIds, <<>>)
    IN IF Len(imageIds) > 0 THEN MapGet(lk.images, imageIds[1]) ELSE None

\* the name of the reporting category (147-149)
CategoryNameOf(itemData, lk) ==
    IF IsSome(itemData.reportingCategory) /\ TruthyStr(itemData.reportingCategory[1].id)
    THEN MapGet(lk.categories, itemData.reportingCategory[1].id[1])
    ELSE None

\* the brand looked for in the first category of the item only
BrandOf_FirstCategoryOnly(itemData, lk) ==
    LET itemCategories == OrElse(itemData.categories, <<>>)
    IN IF /\ Len(itemCategories) > 0
          /\ TruthyStr(itemCategories[1].id)
          /\ itemCategories[1].id[1] \in lk.brandCategoryIds
       THEN MapGet(lk.categories, itemCategories[1].id[1])
       ELSE None

\* the name of the first category of the item that is a child of BRANDS (152-159)
BrandOf(itemData, lk) ==
    LET itemCategories == OrElse(itemData.categories, <<>>)
        IsBrand(c) == TruthyStr(itemCategories[c].id)
                      /\ itemCategories[c].id[1] \in lk.brandCategoryIds
    IN IF \E c \in 1..Len(itemCategories) : IsBrand(c)
       THEN LET first == CHOOSE c \in 1..Len(itemCategories) :
                            IsBrand(c) /\ \A b \in 1..(c - 1) : ~IsBrand(b)
            IN MapGet(lk.categories, itemCategories[first].id[1])
       ELSE None

\* line 166, negated: the variation is processed
IsUsableVariation(variation) ==
    TruthyStr(variation.id) /\ IsSome(variation.itemVariationData)

\* inventory.get(variation.id) ?? 0 (169)
QuantityOf(variation, lk) == OrElse(MapGet(lk.inventory, variation.id[1]), 0)

\* varData.priceMoney?.amount ? Number(amount) : 0 (170-172)
PriceOf(varData) ==
    IF /\ IsSome(varData.priceMoney)
       /\ IsSome(varData.priceMoney[1].amount)
       /\ varData.priceMoney[1].amount[1] # 0
    THEN varData.priceMoney[1].amount[1]
    ELSE 0

\* varData.priceMoney?.currency ?? "AUD" (173)
CurrencyOf(varData) ==
    IF IsSome(varData.priceMoney)
    THEN OrElse(varData.priceMoney[1].currency, Tok("AUD"))
    ELSE Tok("AUD")

\* the fold of a later variation with the total overwritten, not added
FoldExisting_Overwrite(existing, quantity, price, currency, productUrl, imageUrl) ==
    [existing EXCEPT !.totalQuantity = quantity]

\* the fold of a later variation with the currency of the first one kept
FoldExisting_CurrencyKept(existing, quantity, price, currency, productUrl, imageUrl) ==
    LET lower == price > 0 /\ price < existing.minPrice
    IN [existing EXCEPT
          !.totalQuantity = @ + quantity,
          !.minPrice = IF lower THEN price ELSE @,
          !.productUrl = IF ~TruthyStr(@) /\ TruthyStr(productUrl) THEN productUrl ELSE @,
          !.imageUrl = IF ~TruthyStr(@) /\ TruthyStr(imageUrl) THEN imageUrl ELSE @]

\* the fold of a later variation with the links of its record taken always
FoldExisting_LinksOverwritten(existing, quantity, price, currency, productUrl, imageUrl) ==
    LET lower == price > 0 /\ price < existing.minPrice
    IN [existing EXCEPT
          !.totalQuantity = @ + quantity,
          !.minPrice = IF lower THEN price ELSE @,
          !.currency = IF lower THEN currency ELSE @,
          !.productUrl = productUrl,
          !.imageUrl = imageUrl]

\* the fold of a later variation into an item of the map (177-188)
FoldExisting(existing, quantity, price, currency, productUrl, imageUrl) ==
    LET lower == price > 0 /\ price < existing.minPrice
    IN [existing EXCEPT
          !.totalQuantity = @ + quantity,
          !.minPrice = IF lower THEN price ELSE @,
          !.currency = IF lower THEN currency ELSE @,
          !.productUrl = IF ~TruthyStr(@) /\ TruthyStr(productUrl) THEN productUrl ELSE @,
          !.imageUrl = IF ~TruthyStr(@) /\ TruthyStr(imageUrl) THEN imageUrl ELSE @]

\* the name built with the display name of the variation in front
FullNameOf_VariationFirst(itemData, varData) ==
    IF TruthyStr(varData.name)
    THEN varData.name[1] \o NameSeparator \o TemplateStr(itemData.name)
    ELSE OrElse(itemData.name, <<>>)

\* the name built from the first variation (191-193)
FullNameOf(itemData, varData) ==
    IF TruthyStr(varData.name)
    THEN TemplateStr(itemData.name) \o NameSeparator \o varData.name[1]
    ELSE OrElse(itemData.name, <<>>)

\* the item created from the first variation (195-206)
NewItem(obj, varData, quantity, price, currency, lk) ==
    LET itemData == obj.itemData[1]
    IN [itemId |-> obj.id[1],
        name |-> extractBaseName(FullNameOf(itemData, varData)),
        description |-> Some(OrElse(itemData.description, <<>>)),
        productUrl |-> itemData.ecomUri,
        imageUrl |-> ImageUrlOf(itemData, lk),
        category |-> CategoryNameOf(itemData, lk),
        brand |-> BrandOf(itemData, lk),
        minPrice |-> IF price # 0 THEN price ELSE Infinity,
        currency |-> currency,
        totalQuantity |-> quantity]

\* the variation loop with the item map keyed by the name of the item
FoldVariation_KeyByName(map, obj, variation, lk) ==
    IF ~IsUsableVariation(variation) THEN map
    ELSE LET varData == variation.itemVariationData[1]
             quantity == QuantityOf(variation, lk)
             price == PriceOf(varData)
             currency == CurrencyOf(varData)
             key == OrElse(obj.itemData[1].name, <<>>)
             existing == MapGet(map, key)
         IN IF IsSome(existing)
            THEN MapSet(map, key,
                     FoldExisting(existing[1], quantity, price, currency,
                                  obj.itemData[1].ecomUri,
                                  ImageUrlOf(obj.itemData[1], lk)))
            ELSE MapSet(map, key,
                     NewItem(obj, varData, quantity, price, currency, lk))

\* one iteration of the variation loop (165-208) on the item map
FoldVariation(map, obj, variation, lk) ==
    IF ~IsUsableVariation(variation) THEN map
    ELSE LET varData == variation.itemVariationData[1]
             quantity == QuantityOf(variation, lk)
             price == PriceOf(varData)
             currency == CurrencyOf(varData)
             existing == MapGet(map, obj.id[1])
         IN IF IsSome(existing)
            THEN MapSet(map, obj.id[1],
                     FoldExisting(existing[1], quantity, price, currency,
                                  obj.itemData[1].ecomUri,
                                  ImageUrlOf(obj.itemData[1], lk)))
            ELSE MapSet(map, obj.id[1],
                     NewItem(obj, varData, quantity, price, currency, lk))

RECURSIVE FoldVariations(_, _, _, _)
\* the variation loop over the variations vs of obj
FoldVariations(map, obj, vs, lk) ==
    IF Len(vs) = 0 THEN map
    ELSE FoldVariations(FoldVariation(map, obj, Head(vs), lk), obj, Tail(vs), lk)

RECURSIVE FoldObjects(_, _, _)
\* the loop over the catalog objects (132-209)
FoldObjects(map, objs, lk) ==
    IF Len(objs) = 0 THEN map
    ELSE LET obj == Head(objs)
         IN FoldObjects(
                IF IsEligibleItem(obj)
                THEN FoldVariations(map, obj, VariationsOf(obj), lk)
                ELSE map,
                Tail(objs), lk)

\* the test of the final filter (212)
HasValidPrice(item) == item.minPrice < Infinity

\* the values of the item map filtered and returned last first
FilterItems_Reversed(map) ==
    LET kept == SelectSeq([e \in 1..Len(map) |-> map[e].value], HasValidPrice)
    IN [n \in 1..Len(kept) |-> kept[Len(kept) + 1 - n]]

\* Array.from(itemMap.values()).filter(...) (212)
FilterItems(map) ==
    SelectSeq([e \in 1..Len(map) |-> map[e].value], HasValidPrice)

aggregateItems(d) == FilterItems(FoldObjects(<<>>, d.catalogObjects, buildLookups(d)))

\* ------------------------------------------------------------------------
\* toGoogleProduct (google-feed.ts 218-239)
\* ------------------------------------------------------------------------
\* two decimal digits
TwoDigits(n) == <<DigitChars[(n \div 10) + 1], DigitChars[(n % 10) + 1]>>

\* the amount in major units with the fraction not padded to two digits
ToFixed2_NoPad(amount) ==
    IF amount = Infinity THEN Tok("Infinity")
    ELSE LET abs == IF amount < 0 THEN 0 - amount ELSE amount
         IN (IF amount < 0 THEN <<"-">> ELSE <<>>)
            \o NatStr(abs \div 100) \o <<".">> \o NatStr(abs % 100)

\* (amount / 100).toFixed(2) of an integer amount (223)
ToFixed2(amount) ==
    IF amount = Infinity THEN Tok("Infinity")
    ELSE LET abs == IF amount < 0 THEN 0 - amount ELSE amount
         IN (IF amount < 0 THEN <<"-">> ELSE <<>>)
            \o NatStr(abs \div 100) \o <<".">> \o TwoDigits(abs % 100)

\* `${priceValue} ${item.currency}` (224)
PriceText(item) == ToFixed2(item.minPrice) \o <<" ">> \o item.currency

\* the description without the fallback to the name
DescriptionOf_NoFallback(item) == OrElse(item.description, <<>>)

\* item.description || item.name (229)
DescriptionOf(item) ==
    IF TruthyStr(item.description) THEN item.description[1] ELSE item.name

\* availability with a zero total counted as in stock
AvailabilityOf_ZeroInStock(item) ==
    IF item.totalQuantity >= 0 THEN Tok("in_stock") ELSE Tok("out_of_stock")

\* item.totalQuantity > 0 ? "in_stock" : "out_of_stock" (232)
AvailabilityOf(item) ==
    IF item.totalQuantity > 0 THEN Tok("in_stock") ELSE Tok("out_of_stock")

\* the brand with the configured default taking precedence
BrandFieldOf_DefaultFirst(item, cfg) ==
    IF IsSome(cfg.defaultBrand) THEN cfg.defaultBrand ELSE item.brand

\* item.brand ?? config.defaultBrand (235)
BrandFieldOf(item, cfg) ==
    IF IsSome(item.brand) THEN item.brand ELSE cfg.defaultBrand

toGoogleProduct(item, cfg) ==
    [id |-> item.itemId,
     title |-> item.name,
     description |-> DescriptionOf(item),
     link |-> IF TruthyStr(item.productUrl) THEN item.productUrl[1] ELSE <<>>,
     image_link |-> IF TruthyStr(item.imageUrl) THEN item.imageUrl[1] ELSE <<>>,
     availability |-> AvailabilityOf(item),
     price |-> PriceText(item),
     condition |-> Tok("new"),
     brand |-> BrandFieldOf(item, cfg),
     mpn |-> None,
     product_type |-> item.category]

\* ------------------------------------------------------------------------
\* generateTsvFeed (google-feed.ts 244-303)
\* ------------------------------------------------------------------------
\* the column names, in order (244-256)
FEED_COLUMNS ==
    <<Tok("id"), Tok("title"), Tok("description"), Tok("link"), Tok("image_link"),
      Tok("availability"), Tok("price"), Tok("condition"), Tok("brand"), Tok("mpn"),
      Tok("product_type")>>

\* googleProduct[col]?.toString(), in the order of FEED_COLUMNS (296-297)
ColumnValues(product) ==
    <<Some(product.id), Some(product.title), Some(product.description),
      Some(product.link), Some(product.image_link), Some(product.availability),
      Some(product.price), Some(product.condition), product.brand, product.mpn,
      product.product_type>>

\* escapeTsvValue that leaves the carriage return in place
escapeTsvValue_NoCarriageReturn(value) ==
    IF ~TruthyStr(value) THEN <<>>
    ELSE [k \in 1..Len(value[1]) |->
            IF value[1][k] \in {"\t", "\n"} THEN " " ELSE value[1][k]]

\* escapeTsvValue (261-264)
escapeTsvValue(value) ==
    IF ~TruthyStr(value) THEN <<>>
    ELSE [k \in 1..Len(value[1]) |->
            IF value[1][k] \in {"\t", "\n", "\r"} THEN " " ELSE value[1][k]]

\* the row filter with the image test left out
IsEmitted_NoImageCheck(item) ==
    /\ TruthyStr(item.productUrl)
    /\ item.minPrice # 0 /\ item.minPrice # Infinity
    /\ item.totalQuantity > 0

\* the row filter that lets a zero total through
IsEmitted_ZeroStock(item) ==
    /\ TruthyStr(item.productUrl)
    /\ TruthyStr(item.imageUrl)
    /\ item.minPrice # 0 /\ item.minPrice # Infinity
    /\ item.totalQuantity >= 0

\* lines 284-293, negated: the item gets a data row
IsEmitted(item) ==
    /\ TruthyStr(item.productUrl)
    /\ TruthyStr(item.imageUrl)
    /\ item.minPrice # 0 /\ item.minPrice # Infinity
    /\ item.totalQuantity > 0

\* the line of one item (295-299)
RowOf(item, cfg) ==
    LET values == ColumnValues(toGoogleProduct(item, cfg))
    IN Join([c \in 1..Len(values) |-> escapeTsvValue(values[c])], <<"\t">>)

\* the header line (276)
HeaderLine == Join(FEED_COLUMNS, <<"\t">>)

\* the lines with a line feed after each of them
FeedText_TrailingNewline(ls) == Concat([l \in 1..Len(ls) |-> ls[l] \o <<"\n">>])

\* lines.join("\n") (302)
FeedText(ls) == Join(ls, <<"\n">>)

\* generateTsvFeed as a function of its arguments (269-303)
generateTsvFeed(d, cfg) ==
    LET emitted == SelectSeq(aggregateItems(d), IsEmitted)
    IN FeedText(<<HeaderLine>> \o [r \in 1..Len(emitted) |-> RowOf(emitted[r], cfg)])

RECURSIVE Split(_, _)
\* String.prototype.split on a one-character separator
Split(s, sep) ==
    IF \E k \in 1..Len(s) : s[k] = sep
    THEN LET first == CHOOSE k \in 1..Len(s) :
                        s[k] = sep /\ \A m \in 1..(k - 1) : s[m] # sep
         IN <<SubSeq(s, 1, first - 1)>> \o Split(SubSeq(s, first + 1, Len(s)), sep)
    ELSE <<s>>

\* ------------------------------------------------------------------------
\* Catalog snapshots the runs start from
\* ------------------------------------------------------------------------
MkObject(type, id, deleted, itemData, imageData, categoryData) ==
    [type |-> type, id |-> id, isDeleted |-> deleted, itemData |-> itemData,
     imageData |-> imageData, categoryData |-> categoryData]

MkImage(id, url) == MkObject("IMAGE", Some(id), FALSE, None, Some([url |-> url]), None)

MkCategory(id, name, parent) ==
    MkObject("CATEGORY", Some(id), FALSE, None, None,
             Some([name |-> name, parentCategory |-> parent]))

MkVariation(id, data) == [id |-> id, itemVariationData |-> data]

MkMoney(amount, currency) == [amount |-> amount, currency |-> currency]

\* the sequences over S of length lo..hi
SeqsOf(S, lo, hi) == UNION {[1..m -> S] : m \in lo..hi}

ImageUrl1 == Tok("https://example.com/disc.jpg")

ProductUrl1 == Tok("https://example.com/disc")

\* the id of variation j of the n-th ITEM record
VarId(n, j) == <<"v", DigitChars[n + 1], DigitChars[j + 1]>>

\* what a variation of a snapshot is drawn from: its price amount (None: no
\* priceMoney), the quantity of its inventory row (None: no row), and
\* whether it has an id and variation data
PriceChoices == {None} \cup {Some(a) : a \in (0 - 1)..MaxPrice}

QtyChoices == {None} \cup {Some(q) : q \in 0..MaxQty}

PricedVariationChoices ==
    [price : PriceChoices, qty : QtyChoices, shape : {"ok"}]

BrokenVariationChoices ==
    [price : {Some(1)}, qty : {Some(1)}, shape : {"noId", "noData"}]

\* the field of an item or variation spec, or the value a plain product has there
FieldOr(spec, field, plain) == IF field \in DOMAIN spec THEN spec[field] ELSE plain

\* odd amounts carry no currency code, even amounts carry NZD
CurrencyChoice(amount) == IF amount % 2 = 0 THEN Some(Tok("NZD")) ELSE None

VariationOf(choice, n, j) ==
    MkVariation(
        IF choice.shape = "noId" THEN None ELSE Some(VarId(n, j)),
        IF choice.shape = "noData" THEN None
        ELSE Some([name |-> FieldOr(choice, "name", None),
                   priceMoney |->
                       IF IsSome(choice.price)
                       THEN Some(MkMoney(choice.price,
                                FieldOr(choice, "currency", CurrencyChoice(choice.price[1]))))
                       ELSE None]))

\* the ways an ITEM record of a snapshot differs from a sellable product
LinkProfiles == {"ok", "noUrl", "noImage"}

MoreLinkProfiles == {"emptyUrl", "unresolvedImage"}

SkippedProfiles == {"deleted", "archived", "event", "noProductType", "noVariations"}

MoreSkippedProfiles == {"noItemData", "noId"}

ItemOf(spec, n) ==
    MkObject("ITEM",
        IF spec.profile = "noId" THEN None ELSE Some(spec.id),
        spec.profile = "deleted",
        IF spec.profile = "noItemData" THEN None
        ELSE Some([name |-> FieldOr(spec, "name", Some(<<"R", "U">>)),
                   description |-> FieldOr(spec, "description", None),
                   isArchived |-> (spec.profile = "archived"),
                   productType |->
                       IF spec.profile = "event" THEN Some("EVENT")
                       ELSE IF spec.profile = "noProductType" THEN None
                       ELSE Some("REGULAR"),
                   variations |->
                       IF spec.profile = "noVariations" THEN None
                       ELSE Some([j \in 1..Len(spec.vars) |-> VariationOf(spec.vars[j], n, j)]),
                   imageIds |->
                       IF spec.profile = "noImage" THEN None
                       ELSE IF spec.profile = "unresolvedImage" THEN Some(<<Tok("img9")>>)
                       ELSE Some(<<Tok("img1")>>),
                   categories |-> FieldOr(spec, "categories", None),
                   reportingCategory |-> FieldOr(spec, "reportingCategory", None),
                   channels |-> FieldOr(spec, "channels", Some(<<Tok("ch1")>>)),
                   ecomVisibility |-> FieldOr(spec, "ecomVisibility", Some("VISIBLE")),
                   ecomUri |->
                       IF spec.profile = "noUrl" THEN None
                       ELSE IF spec.profile = "emptyUrl" THEN Some(<<>>)
                       ELSE FieldOr(spec, "ecomUri", Some(ProductUrl1))]),
        None, None)

\* the inventory rows of the variations of the n-th ITEM record
RowsOf(spec, n) ==
    LET Row(j) == IF IsSome(spec.vars[j].qty) /\ spec.vars[j].shape # "noId"
                  THEN <<[catalogObjectId |-> Some(VarId(n, j)),
                          quantity |-> Some(IntStr(spec.vars[j].qty[1]))]>>
                  ELSE <<>>
    IN Concat([j \in 1..Len(spec.vars) |-> Row(j)])

\* the snapshot of a sequence of item specs: one image, then the ITEM records
SnapshotOf(specs) ==
    [catalogObjects |->
         <<MkImage(Tok("img1"), Some(ImageUrl1))>>
         \o [n \in 1..Len(specs) |-> ItemOf(specs[n], n)],
     inventoryCounts |-> Concat([n \in 1..Len(specs) |-> RowsOf(specs[n], n)])]

ItemIds == {Tok("i1"), Tok("i2")}

\* one sellable item with every list of up to MaxVars variations
FoldSpecs ==
    {<<[id |-> Tok("i1"), profile |-> "ok", vars |-> vs]>> :
        vs \in SeqsOf(PricedVariationChoices \cup BrokenVariationChoices, 0, MaxVars)}

\* the single variations of the items of a snapshot with several items
PricedInStock == [price |-> Some(1), qty |-> Some(1), shape |-> "ok"]

PricedOutOfStock == [price |-> Some(2), qty |-> Some(0), shape |-> "ok"]

UnpricedInStock == [price |-> None, qty |-> Some(1), shape |-> "ok"]

NoRow == [price |-> Some(1), qty |-> None, shape |-> "ok"]

\* the ITEM records of a snapshot with several items, whose ids may repeat
ItemSpecs ==
    [id : ItemIds, profile : LinkProfiles, vars : {<<PricedInStock>>, <<PricedOutOfStock>>}]
    \cup [id : ItemIds, profile : SkippedProfiles, vars : {<<PricedInStock>>}]
    \cup [id : {Tok("i1")}, profile : MoreSkippedProfiles, vars : {<<PricedInStock>>}]

\* up to MaxItems items, sellable or not
CatalogSpecs == SeqsOf(ItemSpecs, 1, MaxItems)

\* one item of every profile with one variation
ProfileSpecs ==
    {<<spec>> : spec \in
        [id : {Tok("i1")},
         profile : LinkProfiles \cup MoreLinkProfiles \cup SkippedProfiles
                   \cup MoreSkippedProfiles,
         vars : {<<PricedInStock>>, <<PricedOutOfStock>>, <<UnpricedInStock>>}]}

EmptySnapshot == [catalogObjects |-> <<>>, inventoryCounts |-> <<>>]

\* the snapshot with the catalog objects objs ahead of its own
WithObjects(objs, d) == [d EXCEPT !.catalogObjects = objs \o @]

\* the category trees of a snapshot: where the categories named "BRANDS" are
\* (none; c0 alone; c0 its own parent; c4 also named "BRANDS", ahead of c0 or
\* after it), and the parent of c1 and of c2 ("none" for no parent)
CategoryTrees ==
    [brands : {"none", "single", "selfParent", "secondAhead", "secondAfter"},
     parent1 : {"none", "c0", "c4", "c2"},
     parent2 : {"none", "c0", "c1", "c2"}]

\* the { id } reference to a category
CategoryRef(id) == [id |-> Some(Tok(id))]

ParentRef(parent) == IF parent = "none" THEN None ELSE Some(CategoryRef(parent))

\* the CATEGORY records of a tree: c1 "RPM" ahead of c0, then c2 "Putters"
\* and c5, a child of c0 without name
CategoriesOfTree(tree) ==
    LET second == <<MkCategory(Tok("c4"), Some(Tok("BRANDS")), None)>>
    IN <<MkCategory(Tok("c1"), Some(Tok("RPM")), ParentRef(tree.parent1))>>
       \o (IF tree.brands = "secondAhead" THEN second ELSE <<>>)
       \o <<MkCategory(Tok("c0"),
                       Some(Tok(IF tree.brands = "none" THEN "Brands" ELSE "BRANDS")),
                       ParentRef(IF tree.brands = "selfParent" THEN "c0" ELSE "none")),
            MkCategory(Tok("c2"), Some(Tok("Putters")), ParentRef(tree.parent2)),
            MkCategory(Tok("c5"), None, ParentRef("c0"))>>
       \o (IF tree.brands = "secondAfter" THEN second ELSE <<>>)

\* the category lists of an item: absent, or up to MaxCategories references
\* to c1, to c2 or without id
CategoryLists ==
    {None} \cup {Some(cs) : cs \in
        SeqsOf({CategoryRef("c1"), CategoryRef("c2"), [id |-> None]}, 0, MaxCategories)}

\* one sellable item with a list of categories, in a category tree
BrandSnapshots ==
    {WithObjects(CategoriesOfTree(tree),
         SnapshotOf(<<[id |-> Tok("i1"), profile |-> "ok", vars |-> <<PricedInStock>>,
                       categories |-> cs, reportingCategory |-> Some(CategoryRef("c2"))]>>)) :
        tree \in CategoryTrees, cs \in CategoryLists}

\* texts with a tab, a line feed or a carriage return inside, and a text of
\* these three only
ControlTexts ==
    {<<"a", "\t", "b">>, <<"a", "\n", "b">>, <<"a", "\r", "b">>, <<"\t", "\r", "\n">>}

\* a brand c1 "RPM" under c0 "BRANDS" and a category c2 "Putters", with the
\* brand or the category renamed
NamedTree(brand, category) ==
    <<MkCategory(Tok("c0"), Some(Tok("BRANDS")), None),
      MkCategory(Tok("c1"), Some(brand), ParentRef("c0")),
      MkCategory(Tok("c2"), Some(category), None)>>

\* a sellable item of brand c1 and category c2
BrandedItem ==
    [id |-> Tok("i1"), profile |-> "ok", vars |-> <<PricedInStock>>,
     categories |-> Some(<<CategoryRef("c1")>>),
     reportingCategory |-> Some(CategoryRef("c2"))]

\* one sellable item with a control text as its id, its name, its
\* description, its URL, the name of its brand or the name of its category
ControlSnapshots ==
    {WithObjects(NamedTree(Tok("RPM"), Tok("Putters")), SnapshotOf(<<spec>>)) :
        spec \in UNION {{[BrandedItem EXCEPT !.id = text],
                         BrandedItem @@ [name |-> Some(text)],
                         BrandedItem @@ [description |-> Some(text)],
                         BrandedItem @@ [ecomUri |-> Some(text)]} : text \in ControlTexts}}
    \cup {WithObjects(NamedTree(text, Tok("Putters")), SnapshotOf(<<BrandedItem>>)) :
              text \in ControlTexts}
    \cup {WithObjects(NamedTree(Tok("RPM"), text), SnapshotOf(<<BrandedItem>>)) :
              text \in ControlTexts}

\* the quantity texts of inventory rows, each with the number it stands for:
\* no quantity, the empty text and a text that is no number stand for 0, a
\* numeral followed by other text for the numeral
QuantityTexts ==
    {[text |-> None, value |-> 0],
     [text |-> Some(<<>>), value |-> 0],
     [text |-> Some(<<"x">>), value |-> 0],
     [text |-> Some(<<"1", "x">>), value |-> 1]}
    \cup {[text |-> Some(IntStr(q)), value |-> q] : q \in (0 - 1)..MaxQty}

\* the inventory rows: of the first or the second variation of the first
\* item with every quantity text, or without catalogObjectId
InventoryRows ==
    [catalogObjectId : {Some(VarId(1, 1)), Some(VarId(1, 2))},
     quantity : {q.text : q \in QuantityTexts}]
    \cup {[catalogObjectId |-> None, quantity |-> Some(IntStr(1))]}

\* one sellable item with two priced variations and up to MaxRows inventory
\* rows
InventorySnapshots ==
    {[SnapshotOf(<<[id |-> Tok("i1"), profile |-> "ok", vars |-> <<NoRow, NoRow>>]>>)
         EXCEPT !.inventoryCounts = rows] : rows \in SeqsOf(InventoryRows, 0, MaxRows)}

\* one sellable item on the online store or not: without channels, with an
\* empty or a non-empty list of channels, and of every visibility
ChannelSnapshots ==
    {SnapshotOf(<<BrandedItem @@ [channels |-> ch, ecomVisibility |-> vis]>>) :
        ch \in {None, Some(<<>>), Some(<<Tok("ch1")>>)},
        vis \in {None, Some("UNAVAILABLE"), Some("UNINDEXED"), Some("VISIBLE")}}

\* the snapshots of items: of variation lists, of catalogs, of profiles
ItemSnapshots ==
    {SnapshotOf(specs) : specs \in FoldSpecs \cup CatalogSpecs \cup ProfileSpecs}

\* d is a snapshot a run starts from
\* variations whose priceMoney carries an amount of 0, 1 or 2 and a currency
\* code or none, whatever the amount
CurrencyChoices ==
    [price : {Some(0), Some(1), Some(2)}, qty : {Some(1)}, shape : {"ok"},
     currency : {None, Some(Tok("NZD")), Some(Tok("JPY"))}]

\* one sellable item with one or two such variations
CurrencySnapshots ==
    {SnapshotOf(<<[id |-> Tok("i1"), profile |-> "ok", vars |-> vs]>>) :
        vs \in SeqsOf(CurrencyChoices, 1, 2)}

\* item names: empty, plain, upper case, with a separator inside, ending in
\* a space and a hyphen, ending in a separator
ItemNames ==
    {<<>>, <<"A">>, <<"A", "B">>, <<"A", "b">>, <<"A", " ", "-", " ", "B">>,
     <<"A", " ", "-">>, <<" ", "-">>, <<"A", "B", " ", "-">>, <<"A", " ", "-", " ">>,
     <<"A", " ", "-", " ", "B", " ", "-">>}

\* display names of a first variation for an item name: absent, empty, equal
\* to the item name, other
DisplayNames(itemName) ==
    {None, Some(<<>>), Some(itemName), Some(<<"X">>), Some(<<"-", " ", "X">>)}

\* one sellable item of every item name with one variation of every display name
NameSnapshots ==
    {SnapshotOf(<<[id |-> Tok("i1"), profile |-> "ok", name |-> Some(itemName),
                   vars |-> <<PricedInStock @@ [name |-> displayName]>>]>>) :
        <<itemName, displayName>> \in
            {<<n, d>> \in ItemNames \X UNION {DisplayNames(n) : n \in ItemNames} :
                d \in DisplayNames(n)}}

IsSnapshot(d) ==
    \/ d = EmptySnapshot
    \/ d \in ItemSnapshots
    \/ d \in BrandSnapshots
    \/ d \in ControlSnapshots
    \/ d \in InventorySnapshots
    \/ d \in ChannelSnapshots
    \/ d \in CurrencySnapshots
    \/ d \in NameSnapshots

Configs == {[defaultBrand |-> Some(Tok("MDGC"))]}

\* ------------------------------------------------------------------------
\* State: one invocation of generateTsvFeed(data, config)
\* ------------------------------------------------------------------------
VARIABLES
    data,       \* the SquareInventoryData snapshot
    config,     \* the FeedConfig
    pc,         \* the position of the invocation
    lookups,    \* the result of buildLookups
    itemMap,    \* aggregateItems: itemMap
    i,          \* aggregateItems: index of the catalog object of the outer loop
    j,          \* aggregateItems: index of the variation of the inner loop
    items,      \* generateTsvFeed: the result of aggregateItems
    k,          \* generateTsvFeed: index of the item of the row loop
    lines,      \* generateTsvFeed: lines
    output,     \* the string returned, None before the return
    item,       \* the argument of a standalone call of toGoogleProduct
    product,    \* the result of that call, None before the return
    variantName, \* the argument of standalone calls of extractBaseName
    baseNames,  \* the results of extractBaseName applied to it, and again to
                \* each result
    calls,      \* the number of invocations of generateTsvFeed started
    fetch,      \* one call of fetchInventoryCounts or getInventoryCounts: its
                \* arguments, locals, the requests it has sent and its result
    cleanup     \* one run of the deployment cleanup script: its environment,
                \* the deployments of the project, its locals and its requests

vars == <<data, config, pc, lookups, itemMap, i, j, items, k, lines, output, item, product, variantName, baseNames, calls, fetch, cleanup>>

NoLookups == [images |-> <<>>, categories |-> <<>>, brandCategoryIds |-> {}, inventory |-> <<>>]

Init ==
    /\ IsSnapshot(data)
    /\ config \in Configs
    /\ pc = "start"
    /\ lookups = NoLookups
    /\ itemMap = <<>>
    /\ i = 1
    /\ j = 1
    /\ items = <<>>
    /\ k = 1
    /\ lines = <<>>
    /\ output = None
    /\ item = None
    /\ product = None
    /\ variantName = <<>>
    /\ baseNames = <<>>
    /\ calls = 1
    /\ fetch = NoFetch
    /\ cleanup = NoCleanup

\* lines 273-279 and 129-130: the header is pushed, aggregateItems starts
BuildLookups ==
    /\ pc = "start"
    /\ lines' = <<HeaderLine>>
    /\ lookups' = buildLookups(data)
    /\ itemMap' = NewMap(itemMap)
    /\ i' = 1
    /\ j' = 1
    /\ pc' = "objects"
    /\ UNCHANGED <<data, config, items, k, output, item, product, variantName, baseNames, calls, fetch, cleanup>>

\* lines 133-140: the catalog object is skipped
SkipObject ==
    /\ pc = "objects"
    /\ i <= Len(data.catalogObjects)
    /\ ~IsEligibleItem(data.catalogObjects[i])
    /\ i' = i + 1
    /\ j' = 1
    /\ UNCHANGED <<data, config, pc, lookups, itemMap, items, k, lines, output, item, product, variantName, baseNames, calls, fetch, cleanup>>

\* the variation the inner loop is at, when it is at one
AtVariation ==
    /\ pc = "objects"
    /\ i <= Len(data.catalogObjects)
    /\ IsEligibleItem(data.catalogObjects[i])
    /\ j <= Len(VariationsOf(data.catalogObjects[i]))

CurrentObject == data.catalogObjects[i]

CurrentVariation == VariationsOf(data.catalogObjects[i])[j]

\* the loop indices after one variation
Advance ==
    IF j < Len(VariationsOf(CurrentObject))
    THEN i' = i /\ j' = j + 1
    ELSE i' = i + 1 /\ j' = 1

\* line 166: the variation is skipped
SkipVariation ==
    /\ AtVariation
    /\ ~IsUsableVariation(CurrentVariation)
    /\ itemMap' = FoldVariation(itemMap, CurrentObject, CurrentVariation, lookups)
    /\ Advance
    /\ UNCHANGED <<data, config, pc, lookups, items, k, lines, output, item, product, variantName, baseNames, calls, fetch, cleanup>>

\* lines 189-207: the first variation of an item id creates its item
CreateItem ==
    /\ AtVariation
    /\ IsUsableVariation(CurrentVariation)
    /\ ~MapHas(itemMap, CurrentObject.id[1])
    /\ itemMap' = FoldVariation(itemMap, CurrentObject, CurrentVariation, lookups)
    /\ Advance
    /\ UNCHANGED <<data, config, pc, lookups, items, k, lines, output, item, product, variantName, baseNames, calls, fetch, cleanup>>

\* lines 177-188: a later variation is folded into the item
FoldIntoExisting ==
    /\ AtVariation
    /\ IsUsableVariation(CurrentVariation)
    /\ MapHas(itemMap, CurrentObject.id[1])
    /\ itemMap' = FoldVariation(itemMap, CurrentObject, CurrentVariation, lookups)
    /\ Advance
    /\ UNCHANGED <<data, config, pc, lookups, items, k, lines, output, item, product, variantName, baseNames, calls, fetch, cleanup>>

\* line 212 and 279: aggregateItems returns
ReturnItems ==
    /\ pc = "objects"
    /\ i > Len(data.catalogObjects)
    /\ items' = FilterItems(itemMap)
    /\ k' = 1
    /\ pc' = "rows"
    /\ UNCHANGED <<data, config, lookups, itemMap, i, j, lines, output, item, product, variantName, baseNames, calls, fetch, cleanup>>

\* lines 284-293: the item gets no row
SkipRow ==
    /\ pc = "rows"
    /\ k <= Len(items)
    /\ ~IsEmitted(items[k])
    /\ k' = k + 1
    /\ UNCHANGED <<data, config, pc, lookups, itemMap, i, j, items, lines, output, item, product, variantName, baseNames, calls, fetch, cleanup>>

\* lines 295-299: the row of the item is pushed
EmitRow ==
    /\ pc = "rows"
    /\ k <= Len(items)
    /\ IsEmitted(items[k])
    /\ lines' = Append(lines, RowOf(items[k], config))
    /\ k' = k + 1
    /\ UNCHANGED <<data, config, pc, lookups, itemMap, i, j, items, output, item, product, variantName, baseNames, calls, fetch, cleanup>>

\* line 302: the lines are joined and returned
ReturnFeed ==
    /\ pc = "rows"
    /\ k > Len(items)
    /\ output' = Some(FeedText(lines))
    /\ pc' = "done"
    /\ UNCHANGED <<data, config, lookups, itemMap, i, j, items, k, lines, item, product, variantName, baseNames, calls, fetch, cleanup>>

Next ==
    \/ BuildLookups
    \/ SkipObject
    \/ SkipVariation
    \/ CreateItem
    \/ FoldIntoExisting
    \/ ReturnItems
    \/ SkipRow
    \/ EmitRow
    \/ ReturnFeed

Spec == Init /\ [][Next]_vars

\* ------------------------------------------------------------------------
\* Invocations of generateTsvFeed on partial data, run to their return
\* ------------------------------------------------------------------------
\* catalogs with parts missing: one item of every profile; one item with two
\* variations, priced or not, with or without id, data and inventory row;
\* two items, with or without image, of the same id or not
PartialSpecs ==
    ProfileSpecs
    \cup {<<[id |-> Tok("i1"), profile |-> "ok", vars |-> vs]>> :
            vs \in [1..2 -> {PricedInStock, UnpricedInStock, NoRow}
                             \cup BrokenVariationChoices]}
    \cup [1..2 -> [id : ItemIds, profile : {"ok", "noImage"}, vars : {<<PricedInStock>>}]]

PartialSnapshots == {EmptySnapshot} \cup {SnapshotOf(specs) : specs \in PartialSpecs}

InitPartial ==
    /\ data \in PartialSnapshots
    /\ config \in Configs
    /\ pc = "start"
    /\ lookups = NoLookups
    /\ itemMap = <<>>
    /\ i = 1
    /\ j = 1
    /\ items = <<>>
    /\ k = 1
    /\ lines = <<>>
    /\ output = None
    /\ item = None
    /\ product = None
    /\ variantName = <<>>
    /\ baseNames = <<>>
    /\ calls = 1
    /\ fetch = NoFetch
    /\ cleanup = NoCleanup

\* the call runs on: generateTsvFeed is synchronous code that waits for
\* nothing
SpecPartial == InitPartial /\ [][Next]_vars /\ WF_vars(Next)

\* ------------------------------------------------------------------------
\* A standalone call toGoogleProduct(item, config)
\* ------------------------------------------------------------------------
\* the AggregatedItem values a caller passes
AggregatedItems ==
    [itemId : {Tok("item-1")},
     name : {<<"R", "u">>, <<>>},
     description : {None, Some(<<>>), Some(Tok("A putter disc"))},
     productUrl : {None, Some(<<>>), Some(ProductUrl1)},
     imageUrl : {None, Some(ImageUrl1)},
     category : {None, Some(Tok("Putters"))},
     brand : {None, Some(Tok("RPM"))},
     minPrice : {1, MaxPrice, 5, 10, 99, 100, 199, 2200, 12345},
     currency : {Tok("AUD"), Tok("JPY")},
     totalQuantity : (0 - MaxQty)..MaxQty]

CallConfigs == {[defaultBrand |-> None], [defaultBrand |-> Some(Tok("MDGC"))]}

InitProduct ==
    /\ data = EmptySnapshot
    /\ config \in CallConfigs
    /\ pc = "call"
    /\ lookups = NoLookups
    /\ itemMap = <<>>
    /\ i = 1
    /\ j = 1
    /\ items = <<>>
    /\ k = 1
    /\ lines = <<>>
    /\ output = None
    /\ item \in {Some(a) : a \in AggregatedItems}
    /\ product = None
    /\ variantName = <<>>
    /\ baseNames = <<>>
    /\ calls = 1
    /\ fetch = NoFetch
    /\ cleanup = NoCleanup

\* lines 218-239
CallToGoogleProduct ==
    /\ pc = "call"
    /\ product' = Some(toGoogleProduct(item[1], config))
    /\ pc' = "converted"
    /\ UNCHANGED <<data, config, lookups, itemMap, i, j, items, k, lines, output, item, variantName, baseNames, calls, fetch, cleanup>>

NextProduct == CallToGoogleProduct

SpecProduct == InitProduct /\ [][NextProduct]_vars

\* ------------------------------------------------------------------------
\* Invocations of generateTsvFeed one after the other
\* ------------------------------------------------------------------------
\* the snapshots of the invocations: the empty catalog, one item with two
\* variations, one item with a variation without id, one item without image,
\* two items of which one is deleted
RepeatSnapshots ==
    {EmptySnapshot}
    \cup {SnapshotOf(specs) : specs \in
            {<<[id |-> Tok("i1"), profile |-> "ok",
                vars |-> <<PricedInStock, PricedOutOfStock>>]>>,
             <<[id |-> Tok("i1"), profile |-> "ok",
                vars |-> <<[price |-> Some(1), qty |-> Some(1), shape |-> "noId"],
                           PricedInStock>>]>>,
             <<[id |-> Tok("i1"), profile |-> "noImage", vars |-> <<PricedInStock>>]>>,
             <<[id |-> Tok("i2"), profile |-> "ok", vars |-> <<PricedInStock>>],
               [id |-> Tok("i1"), profile |-> "deleted", vars |-> <<PricedInStock>>]>>}}

InitRepeat ==
    /\ data \in RepeatSnapshots
    /\ config \in CallConfigs
    /\ pc = "start"
    /\ lookups = NoLookups
    /\ itemMap = <<>>
    /\ i = 1
    /\ j = 1
    /\ items = <<>>
    /\ k = 1
    /\ lines = <<>>
    /\ output = None
    /\ item = None
    /\ product = None
    /\ variantName = <<>>
    /\ baseNames = <<>>
    /\ calls = 1
    /\ fetch = NoFetch
    /\ cleanup = NoCleanup

\* the caller invokes generateTsvFeed again, with the same or other
\* arguments; what the invocation before left behind is whatever it was
Invoke ==
    /\ pc = "done"
    /\ calls < MaxCalls
    /\ calls' = calls + 1
    /\ data' \in RepeatSnapshots
    /\ config' \in CallConfigs
    /\ output' = None
    /\ pc' = "start"
    /\ UNCHANGED <<lookups, itemMap, i, j, items, k, lines, item, product,
                   variantName, baseNames, fetch, cleanup>>

NextRepeat == Next \/ Invoke

SpecRepeat == InitRepeat /\ [][NextRepeat]_vars

\* ------------------------------------------------------------------------
\* One call of fetchInventoryCounts(client, catalogObjectIds) or of
\* getInventoryCounts(config, catalogObjectIds)
\* ------------------------------------------------------------------------
\* the lengths of the lists: around every multiple of the batch size
IdCounts == {n \in 0..MaxIds : n % BATCH_SIZE \in {0, 1, BATCH_SIZE - 1}}

\* the lists of ids, an id named by a number: all different, or all the same
IdLists ==
    {[n \in 1..m |-> IF same THEN 1 ELSE n] : m \in IdCounts, same \in BOOLEAN}

InitFetch ==
    /\ \E fn \in {"fetchInventoryCounts", "getInventoryCounts"}, ids \in IdLists :
           fetch = [NoFetch EXCEPT !.fn = fn, !.catalogObjectIds = ids]
    /\ pc = "fetch"
    /\ data = EmptySnapshot
    /\ config \in Configs
    /\ lookups = NoLookups
    /\ itemMap = <<>>
    /\ i = 1
    /\ j = 1
    /\ items = <<>>
    /\ k = 1
    /\ lines = <<>>
    /\ output = None
    /\ item = None
    /\ product = None
    /\ variantName = <<>>
    /\ baseNames = <<>>
    /\ calls = 1
    /\ cleanup = NoCleanup

FetchFrame ==
    UNCHANGED <<data, config, lookups, itemMap, i, j, items, k, lines, output,
                item, product, variantName, baseNames, calls, cleanup>>

\* if (catalogObjectIds.length === 0) return []
ReturnNoCounts ==
    /\ pc = "fetch"
    /\ Len(fetch.catalogObjectIds) = 0
    /\ fetch' = [fetch EXCEPT !.result = Some(<<>>)]
    /\ pc' = "fetched"
    /\ FetchFrame

\* the list is not empty: the loop over the batches begins with i = 0
StartBatches ==
    /\ pc = "fetch"
    /\ Len(fetch.catalogObjectIds) # 0
    /\ fetch' = [fetch EXCEPT !.i = 0]
    /\ pc' = "batch"
    /\ FetchFrame

\* fetch-square-inventory.ts 73-83: one batch is asked of the client, and
\* the counts its pager yields are pushed
BatchGetCounts ==
    /\ pc = "batch"
    /\ fetch.fn = "fetchInventoryCounts"
    /\ fetch.i < Len(fetch.catalogObjectIds)
    /\ LET batch == BatchOf(fetch.catalogObjectIds, fetch.i)
       IN \E yielded \in {<<>>, <<[catalogObjectId |-> batch[1]]>>} :
              fetch' = [fetch EXCEPT
                           !.batch = batch,
                           !.requests = Append(@, [catalogObjectIds |-> batch,
                                                   cursor |-> None,
                                                   returned |-> None]),
                           !.allCounts = @ \o yielded,
                           !.i = @ + BATCH_SIZE]
    /\ pc' = "batch"
    /\ FetchFrame

\* api.ts 142-144: the next batch, with the cursor cleared
StartBatch ==
    /\ pc = "batch"
    /\ fetch.fn = "getInventoryCounts"
    /\ fetch.i < Len(fetch.catalogObjectIds)
    /\ fetch' = [fetch EXCEPT
                     !.batch = BatchOf(fetch.catalogObjectIds, fetch.i),
                     !.cursor = None,
                     !.page = 1]
    /\ pc' = "page"
    /\ FetchFrame

\* the cursor a response may carry: none, or, while the service has pages
\* left, one that names the batch and the page
CursorChoices ==
    IF fetch.page < MaxCountPages
    THEN {None, Some(<<fetch.i, fetch.page>>)}
    ELSE {None}

\* api.ts 146-168: one request for the batch, with the cursor when there is
\* one; the counts of the response are pushed; the loop goes on while the
\* response carries a cursor
PostBatchRetrieve ==
    /\ pc = "page"
    /\ \E counts \in {None, Some(<<[catalogObjectId |-> fetch.batch[1]]>>)},
          returned \in CursorChoices :
           /\ fetch' = [fetch EXCEPT
                            !.requests = Append(@, [catalogObjectIds |-> fetch.batch,
                                                    cursor |-> fetch.cursor,
                                                    returned |-> returned]),
                            !.allCounts = IF IsSome(counts) THEN @ \o counts[1] ELSE @,
                            !.cursor = returned,
                            !.page = IF IsSome(returned) THEN @ + 1 ELSE @,
                            !.i = IF IsSome(returned) THEN @ ELSE @ + BATCH_SIZE]
           /\ pc' = IF IsSome(returned) THEN "page" ELSE "batch"
    /\ FetchFrame

\* return counts / return allCounts
ReturnCounts ==
    /\ pc = "batch"
    /\ fetch.i >= Len(fetch.catalogObjectIds)
    /\ fetch' = [fetch EXCEPT !.result = Some(fetch.allCounts)]
    /\ pc' = "fetched"
    /\ FetchFrame

NextFetch ==
    \/ ReturnNoCounts
    \/ StartBatches
    \/ BatchGetCounts
    \/ StartBatch
    \/ PostBatchRetrieve
    \/ ReturnCounts

SpecFetch == InitFetch /\ [][NextFetch]_vars

\* ------------------------------------------------------------------------
\* One run of the cleanup script
\* ------------------------------------------------------------------------
\* a deployment as the service lists it: created the day before the cutoff of
\* the default age, on it or after it; aliases absent, none or one
DeploymentChoices ==
    [created_on : {DateText(Today - DefaultMaxAgeDays + d) : d \in {0 - 1, 0, 1}},
     aliases : {None, Some(<<>>), Some(<<Tok("main.example.pages.dev")>>)}]

\* the deployments of the project, the id of each its place in the list
Projects ==
    {[n \in 1..Len(ds) |-> [id |-> n, created_on |-> ds[n].created_on,
                             aliases |-> ds[n].aliases]] :
        ds \in SeqsOf(DeploymentChoices, 0, MaxDeployments)}

\* the environment: DRY_RUN unset, true, false or TRUE; MAX_AGE_DAYS unset
\* or one day more than the default
InitCleanup ==
    /\ \E dryRun \in {None, Some(Tok("true")), Some(Tok("false")), Some(Tok("TRUE"))},
          maxAge \in {None, Some(DefaultMaxAgeDays + 1)},
          project \in Projects,
          perPage \in {1, 2} :
           cleanup = [DRY_RUN |-> EnvOr(dryRun, Tok("false")),
                      MAX_AGE_DAYS |-> OrElse(maxAge, DefaultMaxAgeDays),
                      CUTOFF_DATE |-> DateText(Today - OrElse(maxAge, DefaultMaxAgeDays)),
                      project |-> project,
                      deployments |-> project,
                      perPage |-> perPage,
                      page |-> 1,
                      result |-> <<>>,
                      total_pages |-> 1,
                      i |-> 0,
                      deletes |-> <<>>,
                      deleted |-> 0,
                      skipped |-> 0,
                      kept |-> 0,
                      exit |-> None]
    /\ pc = "list"
    /\ data = EmptySnapshot
    /\ config \in Configs
    /\ lookups = NoLookups
    /\ itemMap = <<>>
    /\ i = 1
    /\ j = 1
    /\ items = <<>>
    /\ k = 1
    /\ lines = <<>>
    /\ output = None
    /\ item = None
    /\ product = None
    /\ variantName = <<>>
    /\ baseNames = <<>>
    /\ calls = 1
    /\ fetch = NoFetch

CleanupFrame ==
    UNCHANGED <<data, config, lookups, itemMap, i, j, items, k, lines, output,
                item, product, variantName, baseNames, calls, fetch>>

\* lines 45-56: the GET is answered with success other than true
ListFails ==
    /\ pc = "list"
    /\ cleanup' = [cleanup EXCEPT !.exit = Some(1)]
    /\ pc' = "cleaned"
    /\ CleanupFrame

\* lines 45-63: the page holds no deployment
ListNothing ==
    /\ pc = "list"
    /\ Len(PageOf(cleanup.deployments, cleanup.perPage, cleanup.page)) = 0
    /\ cleanup' = [cleanup EXCEPT !.result = <<>>, !.exit = Some(0)]
    /\ pc' = "cleaned"
    /\ CleanupFrame

\* lines 45-65: the page holds deployments, the loop over them begins
ListPage ==
    /\ pc = "list"
    /\ Len(PageOf(cleanup.deployments, cleanup.perPage, cleanup.page)) # 0
    /\ cleanup' = [cleanup EXCEPT
                       !.result = PageOf(cleanup.deployments, cleanup.perPage, cleanup.page),
                       !.total_pages = TotalPages(cleanup.deployments, cleanup.perPage),
                       !.i = 0]
    /\ pc' = "deployment"
    /\ CleanupFrame

AtDeployment == pc = "deployment" /\ cleanup.i < Len(cleanup.result)

CurrentDeployment == cleanup.result[cleanup.i + 1]

\* lines 73-78
SkipAliased ==
    /\ AtDeployment
    /\ AliasCount(CurrentDeployment) > 0
    /\ cleanup' = [cleanup EXCEPT !.skipped = @ + 1, !.i = @ + 1]
    /\ UNCHANGED pc
    /\ CleanupFrame

\* lines 81-83 and 96: a dry run
WouldDelete ==
    /\ AtDeployment
    /\ ~(AliasCount(CurrentDeployment) > 0)
    /\ SortsBefore(CurrentDeployment.created_on, cleanup.CUTOFF_DATE)
    /\ cleanup.DRY_RUN = Tok("true")
    /\ cleanup' = [cleanup EXCEPT !.deleted = @ + 1, !.i = @ + 1]
    /\ UNCHANGED pc
    /\ CleanupFrame

\* lines 81-96: the DELETE request; the service removes the deployment or
\* answers with a failure, which the script only reports
DeleteDeployment ==
    /\ AtDeployment
    /\ ~(AliasCount(CurrentDeployment) > 0)
    /\ SortsBefore(CurrentDeployment.created_on, cleanup.CUTOFF_DATE)
    /\ cleanup.DRY_RUN # Tok("true")
    /\ \E delete_success \in BOOLEAN :
           cleanup' = [cleanup EXCEPT
                          !.deletes = Append(@, CurrentDeployment.id),
                          !.deployments =
                              IF delete_success
                              THEN WithoutDeployment(@, CurrentDeployment.id)
                              ELSE @,
                          !.deleted = @ + 1,
                          !.i = @ + 1]
    /\ UNCHANGED pc
    /\ CleanupFrame

\* lines 97-100
KeepDeployment ==
    /\ AtDeployment
    /\ ~(AliasCount(CurrentDeployment) > 0)
    /\ ~SortsBefore(CurrentDeployment.created_on, cleanup.CUTOFF_DATE)
    /\ cleanup' = [cleanup EXCEPT !.kept = @ + 1, !.i = @ + 1]
    /\ UNCHANGED pc
    /\ CleanupFrame

\* lines 104-107: the page was the last one
LastPage ==
    /\ pc = "deployment"
    /\ cleanup.i = Len(cleanup.result)
    /\ cleanup.page >= cleanup.total_pages
    /\ cleanup' = [cleanup EXCEPT !.exit = Some(0)]
    /\ pc' = "cleaned"
    /\ CleanupFrame

\* line 108
NextPage ==
    /\ pc = "deployment"
    /\ cleanup.i = Len(cleanup.result)
    /\ cleanup.page < cleanup.total_pages
    /\ cleanup' = [cleanup EXCEPT !.page = @ + 1]
    /\ pc' = "list"
    /\ CleanupFrame

NextCleanup ==
    \/ ListFails
    \/ ListNothing
    \/ ListPage
    \/ SkipAliased
    \/ WouldDelete
    \/ DeleteDeployment
    \/ KeepDeployment
    \/ LastPage
    \/ NextPage

SpecCleanup == InitCleanup /\ [][NextCleanup]_vars

\* ------------------------------------------------------------------------
\* Standalone calls extractBaseName(variantName)
\* ------------------------------------------------------------------------
\* the characters of the names: an upper-case letter, a lower-case letter,
\* the space and the hyphen of the separator
NameChars == {"A", "b", " ", "-"}

\* the names extractBaseName is called with
VariantNames == SeqsOf(NameChars, 0, MaxNameLen)

InitName ==
    /\ data = EmptySnapshot
    /\ config \in Configs
    /\ pc = "name"
    /\ lookups = NoLookups
    /\ itemMap = <<>>
    /\ i = 1
    /\ j = 1
    /\ items = <<>>
    /\ k = 1
    /\ lines = <<>>
    /\ output = None
    /\ item = None
    /\ product = None
    /\ variantName \in VariantNames
    /\ baseNames = <<>>
    /\ calls = 1
    /\ fetch = NoFetch
    /\ cleanup = NoCleanup

\* lines 57-68, called with the name and then with the result of that call
CallExtractBaseName ==
    /\ pc = "name"
    /\ Len(baseNames) < 2
    /\ baseNames' = Append(baseNames,
                           extractBaseName(IF baseNames = <<>> THEN variantName
                                           ELSE baseNames[Len(baseNames)]))
    /\ UNCHANGED <<data, config, pc, lookups, itemMap, i, j, items, k, lines, output,
                   item, product, variantName, calls, fetch, cleanup>>

NextName == CallExtractBaseName

SpecName == InitName /\ [][NextName]_vars

\* ------------------------------------------------------------------------
\* What the claims speak of
\* ------------------------------------------------------------------------
\* aggregateItems has returned
Aggregated == pc \in {"rows", "done"}

\* aggregateItems returns: the state in which items is assigned, after which
\* neither items nor data changes
AtReturnOfItems == pc = "rows" /\ k = 1

\* generateTsvFeed has returned
Done == pc = "done"

\* the places <<o, v>> of the processed variations of item id: variation v
\* (with an id and variation data) of a catalog object o that is not skipped
VariationPlaces(id) ==
    {<<o, v>> \in (1..Len(data.catalogObjects)) \X (1..(MaxVars + 1)) :
        /\ IsEligibleItem(data.catalogObjects[o])
        /\ data.catalogObjects[o].id = Some(id)
        /\ v <= Len(VariationsOf(data.catalogObjects[o]))
        /\ IsUsableVariation(VariationsOf(data.catalogObjects[o])[v])}

VariationAt(place) == VariationsOf(data.catalogObjects[place[1]])[place[2]]

\* the quantity the inventory index holds for the variation, 0 when absent
IndexQuantity(place) ==
    IF MapHas(lookups.inventory, VariationAt(place).id[1])
    THEN MapGet(lookups.inventory, VariationAt(place).id[1])[1]
    ELSE 0

PlacePrice(place) == PriceOf(VariationAt(place).itemVariationData[1])

RECURSIVE SumQuantities(_)
SumQuantities(places) ==
    IF places = {} THEN 0
    ELSE LET place == CHOOSE q \in places : TRUE
         IN IndexQuantity(place) + SumQuantities(places \ {place})

\* the least element of a non-empty set of integers
Least(S) == CHOOSE x \in S : \A y \in S : x <= y

\* the data rows of the returned text, each split into its fields
OutputRows ==
    LET ls == Split(output[1], "\n")
    IN [r \in 1..(Len(ls) - 1) |-> Split(ls[r + 1], "\t")]

\* field is the text of an optional value with every tab, line feed and
\* carriage return replaced by one space, empty when the value is absent
IsEscapeOf(field, value) ==
    IF value = None THEN field = <<>>
    ELSE /\ Len(field) = Len(value[1])
         /\ \A m \in 1..Len(field) :
               IF value[1][m] \in {"\t", "\n", "\r"}
               THEN field[m] = " "
               ELSE field[m] = value[1][m]

\* the row is the row of the item: its id field is the id of the item as
\* escapeTsvValue writes it
IsRowOf(row, it) == IsEscapeOf(row[1], Some(it.itemId))

\* the snapshot without the catalog objects that satisfy Drop
Without(d, Drop(_)) ==
    LET Keep(obj) == ~Drop(obj)
    IN [d EXCEPT !.catalogObjects = SelectSeq(d.catalogObjects, Keep)]

\* C1: every item aggregateItems returns has totalQuantity equal to the sum,
\* over the item's variations that have an id and variation data, of the
\* quantity of the inventory index (0 when the variation is absent from it),
\* variations of quantity 0 and variations without price included.
C1_TotalQuantityIsSum ==
    Aggregated =>
        \A n \in 1..Len(items) :
            items[n].totalQuantity = SumQuantities(VariationPlaces(items[n].itemId))

\* a returned item in stock with several variations, one of them absent from
\* the inventory index and one of them without price
C1_Witness ==
    /\ Aggregated
    /\ \E n \in 1..Len(items) :
          LET places == VariationPlaces(items[n].itemId)
          IN /\ Cardinality(places) >= 2
             /\ items[n].totalQuantity > 0
             /\ \E q \in places : ~MapHas(lookups.inventory, VariationAt(q).id[1])
             /\ \E q \in places : PlacePrice(q) = 0

\* C2: every item aggregateItems returns has minPrice equal to the smallest
\* strictly positive price among its variations.
C2_MinPriceIsSmallestPositive ==
    Aggregated =>
        \A n \in 1..Len(items) :
            LET positive == {PlacePrice(q) : q \in
                                {r \in VariationPlaces(items[n].itemId) : PlacePrice(r) > 0}}
            IN positive # {} /\ items[n].minPrice = Least(positive)

\* C3: for an item whose variations all carry a price that is not negative,
\* the minPrice aggregateItems returns is the minimum price over the
\* variations whose inventory quantity is greater than zero.
C3_MinPriceOverInStock ==
    Aggregated =>
        \A n \in 1..Len(items) :
            LET places == VariationPlaces(items[n].itemId)
                inStock == {PlacePrice(q) : q \in
                               {r \in places : IndexQuantity(r) > 0 /\ PlacePrice(r) > 0}}
            IN (inStock # {} /\ \A q \in places : PlacePrice(q) >= 0)
               => items[n].minPrice = Least(inStock)

\* C4: generateTsvFeed emits a data row for an aggregated item if and only
\* if the item has a non-empty productUrl, a non-empty imageUrl and
\* totalQuantity > 0; every data row is the row of an aggregated item, and
\* the header is the first line.
C4_RowIffLinkImageStock ==
    Done =>
        /\ Split(output[1], "\n")[1] = HeaderLine
        /\ \A n \in 1..Len(items) :
              (\E r \in 1..Len(OutputRows) : IsRowOf(OutputRows[r], items[n]))
              <=> (/\ TruthyStr(items[n].productUrl)
                   /\ TruthyStr(items[n].imageUrl)
                   /\ items[n].totalQuantity > 0)
        /\ \A r \in 1..Len(OutputRows) :
              \E n \in 1..Len(items) : IsRowOf(OutputRows[r], items[n])

\* a feed with the row of one item and without the row of another item that
\* is in stock and has an image but no product URL
C4_Witness ==
    /\ Done
    /\ Len(OutputRows) >= 1
    /\ \E n \in 1..Len(items) :
          /\ ~TruthyStr(items[n].productUrl)
          /\ TruthyStr(items[n].imageUrl)
          /\ items[n].totalQuantity > 0
          /\ \A r \in 1..Len(OutputRows) : ~IsRowOf(OutputRows[r], items[n])

\* C5: an item none of whose variations carries a price greater than zero is
\* absent from the list aggregateItems returns.
C5_UnpricedItemAbsent ==
    Aggregated =>
        \A n \in 1..Len(items) :
            \E q \in VariationPlaces(items[n].itemId) : PlacePrice(q) > 0

\* an ITEM record whose product kind is not REGULAR, or that has none
IsNonRegularItem(obj) ==
    /\ obj.type = "ITEM"
    /\ ~(IsSome(obj.itemData) /\ obj.itemData[1].productType = Some("REGULAR"))

\* C6: ITEM records whose product kind is not REGULAR contribute nothing:
\* aggregateItems returns what it returns for the snapshot without them, and
\* every returned item is the item of a REGULAR record.
C6_NonRegularContributesNothing ==
    AtReturnOfItems =>
        /\ items = aggregateItems(Without(data, IsNonRegularItem))
        /\ \A n \in 1..Len(items) :
              \E o \in 1..Len(data.catalogObjects) :
                  /\ data.catalogObjects[o].id = Some(items[n].itemId)
                  /\ ~IsNonRegularItem(data.catalogObjects[o])

\* an EVENT record with a priced variation in stock shares its id with a
\* returned item
C6_Witness ==
    /\ Aggregated
    /\ \E o \in 1..Len(data.catalogObjects), n \in 1..Len(items) :
          LET obj == data.catalogObjects[o]
          IN /\ obj.type = "ITEM"
             /\ IsSome(obj.itemData)
             /\ obj.itemData[1].productType = Some("EVENT")
             /\ obj.id = Some(items[n].itemId)
             /\ \E v \in 1..Len(VariationsOf(obj)) :
                   /\ IsUsableVariation(VariationsOf(obj)[v])
                   /\ PriceOf(VariationsOf(obj)[v].itemVariationData[1]) > 0
                   /\ QuantityOf(VariationsOf(obj)[v], lookups) > 0

\* an ITEM record that is deleted, archived or without variations
IsDeadItem(obj) ==
    /\ obj.type = "ITEM"
    /\ \/ obj.isDeleted
       \/ IsSome(obj.itemData) /\ obj.itemData[1].isArchived
       \/ IsSome(obj.itemData) /\ Len(VariationsOf(obj)) = 0

\* C7: ITEM records that are deleted, archived or without variations are
\* skipped entirely: aggregateItems returns what it returns for the snapshot
\* without them, and every returned item is the item of a record that is
\* none of these.
C7_DeadItemSkipped ==
    AtReturnOfItems =>
        /\ items = aggregateItems(Without(data, IsDeadItem))
        /\ \A n \in 1..Len(items) :
              \E o \in 1..Len(data.catalogObjects) :
                  /\ data.catalogObjects[o].id = Some(items[n].itemId)
                  /\ ~IsDeadItem(data.catalogObjects[o])

\* a deleted record with a priced variation in stock shares its id with a
\* returned item
C7_Witness ==
    /\ Aggregated
    /\ \E o \in 1..Len(data.catalogObjects), n \in 1..Len(items) :
          LET obj == data.catalogObjects[o]
          IN /\ obj.type = "ITEM"
             /\ obj.isDeleted
             /\ IsSome(obj.itemData)
             /\ obj.id = Some(items[n].itemId)
             /\ \E v \in 1..Len(VariationsOf(obj)) :
                   /\ IsUsableVariation(VariationsOf(obj)[v])
                   /\ PriceOf(VariationsOf(obj)[v].itemVariationData[1]) > 0
                   /\ QuantityOf(VariationsOf(obj)[v], lookups) > 0

\* C8: every data row generateTsvFeed emits has availability "in_stock".
C8_RowsInStock ==
    Done => \A r \in 1..Len(OutputRows) : OutputRows[r][6] = Tok("in_stock")

\* a feed with a data row, from a snapshot with a returned item out of stock
C8_Witness ==
    /\ Done
    /\ Len(OutputRows) >= 1
    /\ \E n \in 1..Len(items) : items[n].totalQuantity <= 0

\* C9: toGoogleProduct sets availability to "in_stock" exactly when
\* totalQuantity > 0 and to "out_of_stock" otherwise, and condition to "new".
C9_AvailabilityAndCondition ==
    pc = "converted" =>
        /\ product[1].availability \in {Tok("in_stock"), Tok("out_of_stock")}
        /\ product[1].availability = Tok("in_stock") <=> item[1].totalQuantity > 0
        /\ product[1].condition = Tok("new")

\* a call with a negative total returned out_of_stock
C9_Witness ==
    /\ pc = "converted"
    /\ item[1].totalQuantity < 0
    /\ product[1].availability = Tok("out_of_stock")

\* C10: toGoogleProduct returns the description of the item when it is not
\* empty and the name when it is empty or absent; id is the itemId, title the
\* name, link the productUrl and image_link the imageUrl (the empty string
\* when the item has none).
C10_DescriptionFallbackAndFields ==
    pc = "converted" =>
        /\ IsSome(item[1].description) /\ item[1].description[1] # <<>>
              => product[1].description = item[1].description[1]
        /\ ~IsSome(item[1].description) \/ item[1].description = Some(<<>>)
              => product[1].description = item[1].name
        /\ product[1].id = item[1].itemId
        /\ product[1].title = item[1].name
        /\ product[1].link = OrElse(item[1].productUrl, <<>>)
        /\ product[1].image_link = OrElse(item[1].imageUrl, <<>>)

\* a call with a named item without description returned the name
C10_Witness ==
    /\ pc = "converted"
    /\ item[1].description = None
    /\ item[1].name # <<>>
    /\ product[1].description = item[1].name

\* the fields of the line generateTsvFeed writes for the item of a standalone
\* call (295-299)
CallRow == Split(RowOf(item[1], config), "\t")

\* C11: the brand of the output row is the derived brand of the item when it
\* has one, otherwise the configured defaultBrand, otherwise absent (the
\* empty string in the row); a derived brand is never replaced by the default.
C11_BrandOrDefault ==
    pc = "converted" =>
        /\ IsSome(item[1].brand) =>
              /\ product[1].brand = item[1].brand
              /\ CallRow[9] = item[1].brand[1]
        /\ ~IsSome(item[1].brand) /\ IsSome(config.defaultBrand) =>
              /\ product[1].brand = config.defaultBrand
              /\ CallRow[9] = config.defaultBrand[1]
        /\ ~IsSome(item[1].brand) /\ ~IsSome(config.defaultBrand) =>
              /\ product[1].brand = None
              /\ CallRow[9] = <<>>

\* a call with a branded item and a configured default returned the brand of
\* the item
C11_Witness ==
    /\ pc = "converted"
    /\ IsSome(item[1].brand)
    /\ IsSome(config.defaultBrand)
    /\ item[1].brand # config.defaultBrand
    /\ product[1].brand = item[1].brand

\* the CATEGORY records of the snapshot that carry an id and a name: the
\* categories of the category index
NamedCategoryPlaces ==
    {o \in 1..Len(data.catalogObjects) :
        /\ data.catalogObjects[o].type = "CATEGORY"
        /\ TruthyStr(data.catalogObjects[o].id)
        /\ IsSome(data.catalogObjects[o].categoryData)
        /\ TruthyStr(data.catalogObjects[o].categoryData[1].name)}

CategoryNameAt(o) == data.catalogObjects[o].categoryData[1].name[1]

\* the places of the categories named "BRANDS"
BrandsPlaces == {o \in NamedCategoryPlaces : CategoryNameAt(o) = Tok("BRANDS")}

\* the places of the categories whose direct parent is the category at place b
ChildPlaces(b) ==
    {o \in NamedCategoryPlaces :
        /\ IsSome(data.catalogObjects[o].categoryData[1].parentCategory)
        /\ data.catalogObjects[o].categoryData[1].parentCategory[1].id
              = data.catalogObjects[b].id}

\* the ITEM record that creates the returned item of this id: the first one
\* that passes the item tests and has a variation with an id and data
CreatingRecord(id) ==
    data.catalogObjects[Least({place[1] : place \in VariationPlaces(id)})]

\* the category references of an ITEM record, in order
CategoryRefsOf(obj) == OrElse(obj.itemData[1].categories, <<>>)

\* the positions of the references of an ITEM record to a brand category
BrandRefs(obj) ==
    {c \in 1..Len(CategoryRefsOf(obj)) :
        \E o \in NamedCategoryPlaces :
            /\ data.catalogObjects[o].id = CategoryRefsOf(obj)[c].id
            /\ data.catalogObjects[o].id[1] \in lookups.brandCategoryIds}

\* C12: the brand aggregateItems derives for an item is the name of the first
\* category, in the order of the item's category list, that is a brand
\* category; categories ahead of it that are no brand categories do not
\* prevent the match; an item without brand category has no derived brand.
C12_BrandIsFirstBrandCategory ==
    AtReturnOfItems =>
        \A n \in 1..Len(items) :
            LET obj == CreatingRecord(items[n].itemId)
                refs == BrandRefs(obj)
            IN /\ refs = {} => items[n].brand = None
               /\ refs # {} =>
                     \E o \in NamedCategoryPlaces :
                         /\ data.catalogObjects[o].id = CategoryRefsOf(obj)[Least(refs)].id
                         /\ items[n].brand = Some(CategoryNameAt(o))

\* a returned item whose first category is no brand category and whose
\* second category gave it its brand
C12_Witness ==
    /\ AtReturnOfItems
    /\ \E n \in 1..Len(items) :
          LET obj == CreatingRecord(items[n].itemId)
          IN /\ Len(CategoryRefsOf(obj)) >= 2
             /\ CategoryRefsOf(obj)[1] = CategoryRef("c2")
             /\ 1 \notin BrandRefs(obj)
             /\ 2 \in BrandRefs(obj)
             /\ items[n].brand = Some(Tok("RPM"))

\* C13: brandCategoryIds of buildLookups is exactly the set of the ids of the
\* categories whose direct parent is the first category named "BRANDS" (a
\* grandchild of BRANDS is no brand category; one hop is looked at, whatever
\* the parent links form); without a category named "BRANDS" the set is empty
\* and no item gets a derived brand.
C13_BrandCategoriesAreChildrenOfBrands ==
    pc # "start" =>
        /\ BrandsPlaces # {} =>
              lookups.brandCategoryIds
                 = {data.catalogObjects[o].id[1] : o \in ChildPlaces(Least(BrandsPlaces))}
        /\ BrandsPlaces = {} =>
              /\ lookups.brandCategoryIds = {}
              /\ \A n \in 1..Len(items) : items[n].brand = None

\* the lookups of a snapshot with two categories named "BRANDS", where c1 is
\* a child of the first one and c2 a child of c1: c1 is the only brand
C13_Witness ==
    /\ pc # "start"
    /\ Cardinality(BrandsPlaces) = 2
    /\ \E o \in ChildPlaces(Least(BrandsPlaces)) :
          /\ data.catalogObjects[o].id = Some(Tok("c1"))
          /\ ChildPlaces(o) # {}
    /\ lookups.brandCategoryIds = {Tok("c1")}

\* C14: extractBaseName is idempotent: applied to its own result it returns
\* that result.
C14_ExtractBaseNameIdempotent ==
    Len(baseNames) = 2 => baseNames[2] = baseNames[1]

\* two calls on a name with white space ahead of a separator and an
\* upper-case first segment: the first call changed the name, the second
\* did not change the result
C14_Witness ==
    /\ Len(baseNames) = 2
    /\ \E m \in 1..Len(variantName) : OccursAt(variantName, <<" ", " ", "-", " ">>, m)
    /\ baseNames[1] = <<"A", "a">>
    /\ baseNames[2] = <<"A", "a">>

\* the places of a name where the separator " - " starts
SeparatorPlaces(s) ==
    {m \in 1..Len(s) : m + 2 <= Len(s) /\ s[m] = " " /\ s[m + 1] = "-" /\ s[m + 2] = " "}

\* the characters a+1..b of s are s without the white space at its ends
IsTrimOf(a, b, s) ==
    /\ \A m \in 1..a : s[m] \in WhiteSpace
    /\ \A m \in (b + 1)..Len(s) : s[m] \in WhiteSpace
    /\ a < b => s[a + 1] \notin WhiteSpace /\ s[b] \notin WhiteSpace

\* no character of s is a lower-case letter
IsUpperCase(s) == \A m \in 1..Len(s) : \A l \in 1..26 : s[m] # LowerChars[l]

\* u is t with its first character kept and the upper-case letters after it
\* made lower-case
IsSentenceCaseOf(u, t) ==
    /\ Len(u) = Len(t)
    /\ u[1] = t[1]
    /\ \A m \in 2..Len(t) :
          \/ \E l \in 1..26 : t[m] = UpperChars[l] /\ u[m] = LowerChars[l]
          \/ (\A l \in 1..26 : t[m] # UpperChars[l]) /\ u[m] = t[m]

\* C15: extractBaseName returns the text before the first " - " of the name
\* (the whole name when there is none), trimmed of white space at both ends;
\* when that text is entirely upper-case and longer than one character, its
\* first character is kept and the remainder lower-cased; otherwise it is
\* returned unchanged.
C15_BaseNameIsFirstSegmentSentenceCased ==
    Len(baseNames) >= 1 =>
        LET places == SeparatorPlaces(variantName)
            segment == IF places = {} THEN variantName
                       ELSE SubSeq(variantName, 1, Least(places) - 1)
        IN \E a \in 0..Len(segment) : \E b \in a..Len(segment) :
              LET t == SubSeq(segment, a + 1, b)
              IN /\ IsTrimOf(a, b, segment)
                 /\ IF IsUpperCase(t) /\ Len(t) > 1
                    THEN IsSentenceCaseOf(baseNames[1], t)
                    ELSE baseNames[1] = t

\* a call on an upper-case name with a suffix and white space at the end of
\* the first segment returned the segment in sentence case
C15_Witness ==
    /\ Len(baseNames) >= 1
    /\ variantName = <<"A", "A", " ", " ", "-", " ">>
    /\ baseNames[1] = <<"A", "a">>

\* the lines of the returned text, each split into its fields
OutputLines ==
    LET ls == Split(output[1], "\n")
    IN [l \in 1..Len(ls) |-> Split(ls[l], "\t")]

\* the returned items that pass the row filter, in order
EmittedItems == SelectSeq(items, IsEmitted)

\* C16: every line of the returned text has exactly eleven tab-separated
\* fields; no field of a data row contains a tab, a line feed or a carriage
\* return: each of them in a value is replaced by one space, and an absent
\* value is the empty field.
C16_RowsHaveElevenCleanFields ==
    Done =>
        LET ls == OutputLines
            emitted == EmittedItems
        IN /\ \A l \in 1..Len(ls) : Len(ls[l]) = 11
           /\ Len(ls) = 1 + Len(emitted)
           /\ \A r \in 1..Len(emitted) :
                 LET values == ColumnValues(toGoogleProduct(emitted[r], config))
                     fields == ls[r + 1]
                 IN \A c \in 1..11 :
                       /\ \A m \in 1..Len(fields[c]) :
                             fields[c][m] \notin {"\t", "\n", "\r"}
                       /\ IsEscapeOf(fields[c], values[c])

\* a feed with a data row for an item whose description holds a carriage
\* return, whose place in the row a space has taken, and with an empty field
C16_Witness ==
    /\ Done
    /\ Len(EmittedItems) = 1
    /\ EmittedItems[1].description = Some(<<"a", "\r", "b">>)
    /\ OutputLines[2][3] = <<"a", " ", "b">>
    /\ OutputLines[2][10] = <<>>

\* the header line, character by character
HeaderText ==
    <<"id", "\t", "title", "\t", "description", "\t", "link", "\t", "image_link", "\t",
      "availability", "\t", "price", "\t", "condition", "\t", "brand", "\t", "mpn", "\t",
      "product_type">>

\* the returned text is the header line, then one line per emitted item,
\* with no line feed at the end
IsHeaderThenOneLinePerItem ==
    LET ls == Split(output[1], "\n")
    IN /\ ls[1] = HeaderText
       /\ Len(ls) = 1 + Len(EmittedItems)
       /\ \A r \in 1..Len(EmittedItems) :
             IsEscapeOf(Split(ls[r + 1], "\t")[1], Some(EmittedItems[r].itemId))
       /\ output[1][Len(output[1])] # "\n"
       /\ EmittedItems = <<>> => output[1] = HeaderText

\* C17: generateTsvFeed does not fail on partial data: every call returns;
\* the returned text has the header as its first line, then exactly one line
\* per emitted item, the lines joined by "\n" with no line feed at the end;
\* with no emitted item (the empty catalog included) the text is the header
\* line alone.
C17_HeaderThenOneLinePerItem ==
    /\ <>Done
    /\ [](Done => IsHeaderThenOneLinePerItem)

\* a feed of the header line alone, returned for a catalog whose ITEM record
\* has no item data
C17_Witness ==
    /\ Done
    /\ \E o \in 1..Len(data.catalogObjects) :
          data.catalogObjects[o].type = "ITEM" /\ data.catalogObjects[o].itemData = None
    /\ items = <<>>
    /\ output = Some(HeaderText)

\* the places of the decimal point in a text
PointPlaces(text) == {m \in 1..Len(text) : text[m] = "."}

\* text is the decimal numeral of amount hundredths with exactly two fraction
\* digits, one space and the currency code
IsPriceOf(text, amount, currency) ==
    /\ Cardinality(PointPlaces(text)) = 1
    /\ LET point == Least(PointPlaces(text))
       IN /\ point >= 2
          /\ \A m \in 1..(point - 1) : IsDigit(text[m])
          /\ point > 2 => text[1] # "0"
          /\ Len(text) = point + 3 + Len(currency)
          /\ IsDigit(text[point + 1])
          /\ IsDigit(text[point + 2])
          /\ text[point + 3] = " "
          /\ SubSeq(text, point + 4, Len(text)) = currency
          /\ 100 * DigitsValue(SubSeq(text, 1, point - 1), 0)
                + 10 * DigitValue(text[point + 1]) + DigitValue(text[point + 2]) = amount

\* C18: for every positive amount p of minor units and currency code c the
\* price of the product is the decimal numeral of p / 100 with exactly two
\* fraction digits, one space, then c; the division by 100 is the same for
\* every currency.
C18_PriceIsMajorUnitsAndCurrency ==
    pc = "converted" /\ item[1].minPrice > 0 =>
        IsPriceOf(product[1].price, item[1].minPrice, item[1].currency)

\* a call that returned "0.05 JPY" for 5 JPY: the fraction padded to two
\* digits, the amount divided by 100 for a currency other than AUD
C18_Witness ==
    /\ pc = "converted"
    /\ item[1].minPrice = 5
    /\ item[1].currency = Tok("JPY")
    /\ product[1].price = <<"0", ".", "0", "5", " ", "JPY">>

\* the number a quantity text stands for
ValueOfText(text) == (CHOOSE q \in QuantityTexts : q.text = text).value

\* the places of the inventory rows of a catalog object id
RowPlaces(id) ==
    {r \in 1..Len(data.inventoryCounts) : data.inventoryCounts[r].catalogObjectId = Some(id)}

RECURSIVE SumRows(_)
\* the sum of the numbers the rows at the places stand for
SumRows(places) ==
    IF places = {} THEN 0
    ELSE LET r == CHOOSE q \in places : TRUE
         IN ValueOfText(data.inventoryCounts[r].quantity) + SumRows(places \ {r})

\* the catalog object ids of the inventory rows
RowIds ==
    {data.inventoryCounts[r].catalogObjectId[1] :
        r \in {q \in 1..Len(data.inventoryCounts) :
                  TruthyStr(data.inventoryCounts[q].catalogObjectId)}}

\* C19: the inventory index of buildLookups holds, for a catalogObjectId, the
\* sum of the quantities of all inventory rows with that id (rows are added,
\* never overwritten); a row whose quantity is missing or is no number
\* contributes 0.
C19_InventoryIsSumOfRows ==
    pc # "start" =>
        /\ \A e \in 1..Len(lookups.inventory) : lookups.inventory[e].key \in RowIds
        /\ \A id \in RowIds :
              MapGet(lookups.inventory, id) = Some(SumRows(RowPlaces(id)))

\* the index of a snapshot with two rows of one id, one of quantity 1 and one
\* whose quantity is no number: the id is recorded with 1
C19_Witness ==
    /\ pc # "start"
    /\ \E id \in RowIds :
          /\ Cardinality(RowPlaces(id)) = 2
          /\ \E r \in RowPlaces(id) : data.inventoryCounts[r].quantity = Some(<<"x">>)
          /\ \E r \in RowPlaces(id) : data.inventoryCounts[r].quantity = Some(IntStr(1))
          /\ MapGet(lookups.inventory, id) = Some(1)

\* the snapshot without the ITEM records of other ids than id
OnlyItem(id) ==
    LET IsOther(obj) == obj.type = "ITEM" /\ obj.id # Some(id)
    IN Without(data, IsOther)

\* C20: aggregateItems never returns two items with the same itemId: the
\* variations of one item id, in however many ITEM records the id occurs,
\* fold into one record; variations of items with other ids are not merged
\* into it: the record is the one the snapshot without the ITEM records of
\* other ids gives.
C20_OneRecordPerItemId ==
    AtReturnOfItems =>
        /\ \A n, m \in 1..Len(items) : items[n].itemId = items[m].itemId => n = m
        /\ \A n \in 1..Len(items) :
              /\ VariationPlaces(items[n].itemId) # {}
              /\ aggregateItems(OnlyItem(items[n].itemId)) = <<items[n]>>

\* the return of one item, of total 2, for a snapshot with two ITEM records
\* of its id with one variation in stock each
C20_Witness ==
    /\ AtReturnOfItems
    /\ Len(items) = 1
    /\ Cardinality({place[1] : place \in VariationPlaces(items[1].itemId)}) = 2
    /\ items[1].totalQuantity = 2

\* the places of the ITEM records of an id
ItemPlaces(id) ==
    {o \in 1..Len(data.catalogObjects) :
        data.catalogObjects[o].type = "ITEM" /\ data.catalogObjects[o].id = Some(id)}

\* no two ITEM records of the snapshot have the same id
HasUniqueItemIds ==
    \A o, q \in 1..Len(data.catalogObjects) :
        /\ data.catalogObjects[o].type = "ITEM"
        /\ data.catalogObjects[q].type = "ITEM"
        /\ data.catalogObjects[o].id = data.catalogObjects[q].id
        => o = q

IsOffline(obj) ==
    /\ obj.type = "ITEM"
    /\ IsSome(obj.itemData)
    /\ \/ OrElse(obj.itemData[1].channels, <<>>) = <<>>
       \/ obj.itemData[1].ecomVisibility = Some("UNAVAILABLE")

\* C22: no row is emitted for an item that has no channels or whose
\* ecomVisibility is UNAVAILABLE, even when it is REGULAR, priced, in stock
\* and has an image and a product URL.
C22_OfflineItemHasNoRow ==
    Done =>
        \A o \in 1..Len(data.catalogObjects) :
            IsOffline(data.catalogObjects[o]) /\ IsSome(data.catalogObjects[o].id) =>
                \A r \in 1..Len(OutputRows) :
                    ~IsEscapeOf(OutputRows[r][1], data.catalogObjects[o].id)

\* C23: the pipeline does not change its inputs and keeps no state between
\* invocations: no step of an invocation changes data or config, and the text
\* an invocation returns is the text generateTsvFeed gives for its arguments,
\* whatever invocations ran before it.
C23_InputsKeptAndNoStateKept ==
    [][/\ pc # "done" => data' = data /\ config' = config
       /\ pc' = "done" => output' = Some(generateTsvFeed(data, config))]_vars

\* the return of a second invocation, on the empty catalog, after an
\* invocation that emitted a row: the header line alone
C23_Witness ==
    /\ Done
    /\ calls = 2
    /\ data = EmptySnapshot
    /\ Len(lines) = 1
    /\ output = Some(HeaderLine)
    /\ Len(itemMap) = 0
    /\ lookups.images = <<>>

\* the fields of an aggregated item that no fold of a later variation changes
FrameOf(it) ==
    [itemId |-> it.itemId, name |-> it.name, description |-> it.description,
     category |-> it.category, brand |-> it.brand]

\* the link after a fold: the link before when set, else that or the link
\* of the record of the variation
IsLinkAfterFold(before, after, offered) ==
    IF TruthyStr(before) THEN after = before
    ELSE after = before \/ (TruthyStr(offered) /\ after = offered)

\* C24: the fold of a later variation into an item of the map leaves the
\* itemId, name, description, category and brand of the item as they were,
\* leaves productUrl and imageUrl as they were when they were set and fills
\* them from the record otherwise, and changes no other item of the map; only
\* totalQuantity, minPrice and currency change otherwise.
C24_FoldFrame ==
    [][(/\ AtVariation
        /\ IsUsableVariation(CurrentVariation)
        /\ MapHas(itemMap, CurrentObject.id[1]))
       => LET id == CurrentObject.id[1]
              before == MapGet(itemMap, id)[1]
              after == MapGet(itemMap', id)[1]
              itemData == CurrentObject.itemData[1]
          IN /\ MapHas(itemMap', id)
             /\ FrameOf(after) = FrameOf(before)
             /\ IsLinkAfterFold(before.productUrl, after.productUrl, itemData.ecomUri)
             /\ IsLinkAfterFold(before.imageUrl, after.imageUrl,
                                ImageUrlOf(itemData, lookups))
             /\ DOMAIN after = DOMAIN before
             /\ Len(itemMap') = Len(itemMap)
             /\ \A e \in 1..Len(itemMap) :
                    /\ itemMap'[e].key = itemMap[e].key
                    /\ itemMap[e].key # id => itemMap'[e] = itemMap[e]]_vars

\* two records of one id, the first without product URL: the variation of
\* the second is folded into the item of the first and fills the link
C24_Witness ==
    /\ pc = "objects"
    /\ Len(data.catalogObjects) = 3
    /\ i > 3
    /\ data.catalogObjects[2].id = data.catalogObjects[3].id
    /\ IsEligibleItem(data.catalogObjects[2])
    /\ ~TruthyStr(data.catalogObjects[2].itemData[1].ecomUri)
    /\ Len(itemMap) = 1
    /\ itemMap[1].value.productUrl = Some(ProductUrl1)
    /\ itemMap[1].value.totalQuantity = 2
    /\ itemMap[1].value.minPrice = 1

\* C25: every item aggregateItems returns has a finite minPrice greater than
\* zero, whatever integer amounts the variations carry, zero and negative
\* amounts among them; and while the map is folded, an item whose variations
\* so far carry no price greater than zero holds the unset sentinel.
C25_MinPriceFiniteAndPositive ==
    /\ Aggregated =>
           \A n \in 1..Len(items) :
               items[n].minPrice > 0 /\ items[n].minPrice < Infinity
    /\ \A e \in 1..Len(itemMap) :
           itemMap[e].value.minPrice > 0

\* place q comes before place r in input order, or is r
PlaceNotAfter(q, r) == q[1] < r[1] \/ (q[1] = r[1] /\ q[2] <= r[2])

\* the currency code of the variation at a place, AUD when it has none
PlaceCurrency(place) == CurrencyOf(VariationAt(place).itemVariationData[1])

\* C26: currency follows the minimum price. In every fold of a later
\* variation the currency of the item is assigned the currency of the
\* variation when minPrice changes and is left alone when it does not; and
\* every item aggregateItems returns has the currency (AUD when the variation
\* has none) of the earliest variation, in input order, whose price is the
\* minPrice of the item.
C26_CurrencyFollowsMinPrice ==
    /\ [][(/\ AtVariation
            /\ IsUsableVariation(CurrentVariation)
            /\ MapHas(itemMap, CurrentObject.id[1]))
           => LET id == CurrentObject.id[1]
                  before == MapGet(itemMap, id)[1]
                  after == MapGet(itemMap', id)[1]
              IN IF after.minPrice # before.minPrice
                 THEN after.currency = PlaceCurrency(<<i, j>>)
                 ELSE after.currency = before.currency]_vars
    /\ [](Aggregated =>
            \A n \in 1..Len(items) :
                LET equal == {q \in VariationPlaces(items[n].itemId) :
                                 PlacePrice(q) = items[n].minPrice}
                IN /\ equal # {}
                   /\ \E q \in equal :
                          /\ \A r \in equal : PlaceNotAfter(q, r)
                          /\ items[n].currency = PlaceCurrency(q))

\* an item whose first variation carries amount 0 and NZD and whose second
\* carries amount 1 and JPY is returned with minPrice 1 and JPY
C26_Witness ==
    /\ AtReturnOfItems
    /\ Len(items) = 1
    /\ items[1].minPrice = 1
    /\ items[1].currency = Tok("JPY")
    /\ LET places == VariationPlaces(items[1].itemId)
       IN /\ places = {<<2, 1>>, <<2, 2>>}
          /\ PlacePrice(<<2, 1>>) = 0
          /\ PlaceCurrency(<<2, 1>>) = Tok("NZD")
          /\ PlacePrice(<<2, 2>>) = 1

\* the name of the ITEM record that creates the item of an id, empty when absent
ItemNameOf(id) == OrElse(CreatingRecord(id).itemData[1].name, <<>>)

\* the display name of the variation that creates the item of an id
DisplayNameOf(id) ==
    LET o == Least({place[1] : place \in VariationPlaces(id)})
        v == Least({place[2] : place \in {q \in VariationPlaces(id) : q[1] = o}})
    IN VariationAt(<<o, v>>).itemVariationData[1].name

\* s ends in a space and a hyphen and holds no separator
EndsInOpenSeparator(s) ==
    /\ Len(s) >= 2
    /\ s[Len(s) - 1] = " "
    /\ s[Len(s)] = "-"
    /\ \A p \in 1..Len(s) : ~OccursAt(s, NameSeparator, p)

\* C27 (as stated): the name of an aggregated item is extractBaseName of the
\* item name, whatever the display name of the first variation is.
C27_NameIsBaseNameOfItemName ==
    Aggregated =>
        \A n \in 1..Len(items) :
            items[n].name = extractBaseName(ItemNameOf(items[n].itemId))

\* C27 (amended): the name of an aggregated item is extractBaseName of the
\* item name, whatever the display name of the first variation is, unless
\* the variation has a display name and the item name ends in a space and a
\* hyphen with no separator before: then the separator of the working name
\* begins at that space, and the name is extractBaseName of the item name
\* without its last two characters.
C27_NameIsBaseNameUnlessOpenSeparator ==
    Aggregated =>
        \A n \in 1..Len(items) :
            LET itemName == ItemNameOf(items[n].itemId)
            IN IF /\ TruthyStr(DisplayNameOf(items[n].itemId))
                  /\ EndsInOpenSeparator(itemName)
               THEN items[n].name = extractBaseName(SubSeq(itemName, 1, Len(itemName) - 2))
               ELSE items[n].name = extractBaseName(itemName)

\* an item named AB whose first variation is displayed as X is returned as Ab
C27_Witness ==
    /\ AtReturnOfItems
    /\ Len(items) = 1
    /\ ItemNameOf(items[1].itemId) = <<"A", "B">>
    /\ DisplayNameOf(items[1].itemId) = Some(<<"X">>)
    /\ items[1].name = <<"A", "b">>

\* the permutations of 1..n
OrdersOf(n) == {f \in [1..n -> 1..n] : \A a, b \in 1..n : f[a] = f[b] => a = b}

\* the snapshot with the variations of catalog object o in the order perm
WithVariationsPermuted(d, o, perm) ==
    LET vs == VariationsOf(d.catalogObjects[o])
    IN [d EXCEPT !.catalogObjects[o].itemData[1].variations =
                     Some([x \in 1..Len(vs) |-> vs[perm[x]]])]

\* what of a list of aggregated items the order of the variations is said
\* not to bear on: which items it holds, their totalQuantity and minPrice,
\* and which of them get a row
FoldOutcome(its) ==
    {[itemId |-> its[n].itemId, totalQuantity |-> its[n].totalQuantity,
      minPrice |-> its[n].minPrice, emitted |-> IsEmitted(its[n])] : n \in 1..Len(its)}

\* C28: the fold does not depend on the order of the variations: for every
\* ITEM record and every permutation of its variations, aggregateItems
\* returns the same items with the same totalQuantity and minPrice, and
\* generateTsvFeed emits the same of them.
C28_FoldIsOrderIndependent ==
    AtReturnOfItems =>
        \A o \in 1..Len(data.catalogObjects) :
            IsEligibleItem(data.catalogObjects[o]) =>
                \A perm \in OrdersOf(Len(VariationsOf(data.catalogObjects[o]))) :
                    FoldOutcome(aggregateItems(WithVariationsPermuted(data, o, perm)))
                        = FoldOutcome(items)

\* the request opens a batch: it carries no cursor
IsFirstRequest(request) == request.cursor = None

\* the batches of the requests that open a batch, in request order
RequestedBatches ==
    LET firsts == SelectSeq(fetch.requests, IsFirstRequest)
    IN [b \in 1..Len(firsts) |-> firsts[b].catalogObjectIds]

DayOfText(text) == 10 * DigitValue(text[1]) + DigitValue(text[2])

\* the deployment of the project a DELETE request names
DeploymentOf(id) == cleanup.project[id]

\* C30: a DELETE request is sent for a deployment only if it has no alias,
\* was created before the cutoff, the day of the run less MAX_AGE_DAYS, and
\* DRY_RUN is not "true"; so no deployment with an alias is deleted whatever
\* its age, and a dry run deletes nothing.
C30_DeleteOnlyOldUnaliasedUnlessDryRun ==
    pc \in {"list", "deployment", "cleaned"} =>
        /\ \A r \in 1..Len(cleanup.deletes) :
               LET deployment == DeploymentOf(cleanup.deletes[r])
               IN /\ deployment.aliases \in {None, Some(<<>>)}
                  /\ DayOfText(deployment.created_on) < Today - cleanup.MAX_AGE_DAYS
                  /\ cleanup.DRY_RUN # Tok("true")
        /\ cleanup.DRY_RUN = Tok("true") => cleanup.deletes = <<>>

\* a run that is no dry run has ended after one DELETE request, for the
\* second of two deployments, both created before the cutoff, the first with
\* an alias
C30_Witness ==
    /\ pc = "cleaned"
    /\ cleanup.exit = Some(0)
    /\ Len(cleanup.project) = 2
    /\ cleanup.deletes = <<2>>
    /\ cleanup.skipped = 1
    /\ IsSome(cleanup.project[1].aliases)
    /\ Len(cleanup.project[1].aliases[1]) = 1
    /\ cleanup.project[1].created_on = cleanup.project[2].created_on

====
